---- MODULE Spec2Model ----
(***************************************************************************)
(* ECARE post-ingestion entity cleanup (src/resolve/merge_entities.py)     *)
(* over the SQLite store of src/utils/create_db.py.                        *)
(*                                                                         *)
(* Names are TLA+ strings; the Python string functions the cleanup uses    *)
(* are computed character by character.                                    *)
(***************************************************************************)
EXTENDS Integers, Sequences, FiniteSets, TLC

(***************************************************************************)
(* Python str primitives                                                   *)
(***************************************************************************)
UpperLetters == "ABCDEFGHIJKLMNOPQRSTUVWXYZ"
LowerLetters == "abcdefghijklmnopqrstuvwxyz"
Digits == "0123456789"

Ch(s, i) == SubSeq(s, i, i)

InStr(c, alphabet) == \E i \in 1..Len(alphabet) : Ch(alphabet, i) = c

PosIn(c, alphabet) == CHOOSE i \in 1..Len(alphabet) : Ch(alphabet, i) = c

IsUpperCh(c) == InStr(c, UpperLetters)

IsLowerCh(c) == InStr(c, LowerLetters)

IsAlphaCh(c) == IsUpperCh(c) \/ IsLowerCh(c)

IsDigitCh(c) == InStr(c, Digits)

IsWordCh(c) == IsAlphaCh(c) \/ IsDigitCh(c) \/ c = "_"

IsSpaceCh(c) == c \in {" ", "\t", "\n", "\r"}

LowerCh(c) == IF IsUpperCh(c) THEN Ch(LowerLetters, PosIn(c, UpperLetters)) ELSE c

UpperCh(c) == IF IsLowerCh(c) THEN Ch(UpperLetters, PosIn(c, LowerLetters)) ELSE c

RECURSIVE MapFrom(_, _, _)
MapFrom(F(_), s, i) ==
    IF i > Len(s) THEN "" ELSE F(Ch(s, i)) \o MapFrom(F, s, i + 1)

\* the names the registries below hold or come to hold; the tables over
\* them only save recomputation, every function falls back on its definition
KnownNames ==
    {"Larry Visoski", "Lawrence Visoski", "MR. LARRY VISOSKI", "larry visoski",
     "Pilot Larry", "Ghislaine Maxwell", "Brad Cassell", "Mr. Cassell", "Cassell",
     "President", "MARY", "Mary", "Harvard", "Roger ?", "JEAN-LUC BRUNEL",
     "Jean-Luc Brunel", "Alan Dershowitz", "Dershowitz", "Alan M. Dershowitz",
     "alan dershowitz", "Prof. Dershowitz", "Mr. Larry Visoski",
     "Prof. Alan Dershowitz", "Paul Cassell", "Leon Black", "John Smith", "JOHN SMITH",
     "Johnny Smith", "John Kerry", "John Forbes Kerry", "Conrad Black", "Mr. Black"}

\* the table of F over the known names, and F read through its table
MemoTable(F(_)) == [n \in KnownNames |-> F(n)]

Memo(F(_), table, x) == IF x \in DOMAIN table THEN table[x] ELSE F(x)

LowerOf(s) == MapFrom(LowerCh, s, 1)

UpperOf(s) == MapFrom(UpperCh, s, 1)

LowerTable == MemoTable(LowerOf)

UpperTable == MemoTable(UpperOf)

lower(s) == Memo(LowerOf, LowerTable, s)

upper(s) == Memo(UpperOf, UpperTable, s)

CountCh(P(_), s) == Cardinality({i \in 1..Len(s) : P(Ch(s, i))})

startswith(s, p) == Len(p) <= Len(s) /\ SubSeq(s, 1, Len(p)) = p

endswith(s, p) == Len(p) <= Len(s) /\ SubSeq(s, Len(s) - Len(p) + 1, Len(s)) = p

contains(s, sub) ==
    \E i \in 1..(Len(s) - Len(sub) + 1) : SubSeq(s, i, i + Len(sub) - 1) = sub

\* index of the first occurrence of the character c at or after i, 0 if none
FindCh(s, c, i) ==
    IF \E j \in i..Len(s) : Ch(s, j) = c
    THEN CHOOSE j \in i..Len(s) : Ch(s, j) = c /\ \A k \in i..(j - 1) : Ch(s, k) # c
    ELSE 0

strip(s) ==
    IF \A i \in 1..Len(s) : IsSpaceCh(Ch(s, i)) THEN ""
    ELSE LET a == CHOOSE i \in 1..Len(s) :
                      ~IsSpaceCh(Ch(s, i)) /\ \A k \in 1..(i - 1) : IsSpaceCh(Ch(s, k))
             b == CHOOSE i \in 1..Len(s) :
                      ~IsSpaceCh(Ch(s, i)) /\ \A k \in (i + 1)..Len(s) : IsSpaceCh(Ch(s, k))
         IN  SubSeq(s, a, b)

\* str.split(): the maximal runs of non-whitespace characters
RECURSIVE SplitFrom(_, _)
SplitFrom(s, i) ==
    IF i > Len(s) THEN <<>>
    ELSE IF IsSpaceCh(Ch(s, i)) THEN SplitFrom(s, i + 1)
    ELSE LET e == CHOOSE j \in i..Len(s) :
                      /\ \A k \in i..j : ~IsSpaceCh(Ch(s, k))
                      /\ (j = Len(s) \/ IsSpaceCh(Ch(s, j + 1)))
         IN  <<SubSeq(s, i, e)>> \o SplitFrom(s, e + 1)

split(s) == SplitFrom(s, 1)

\* str.split(c) on one separator character: empty fields are kept
RECURSIVE SplitOnFrom(_, _, _)
SplitOnFrom(s, c, i) ==
    LET j == FindCh(s, c, i)
    IN  IF j = 0 THEN <<SubSeq(s, i, Len(s))>>
        ELSE <<SubSeq(s, i, j - 1)>> \o SplitOnFrom(s, c, j + 1)

splitOn(s, c) == SplitOnFrom(s, c, 1)

RECURSIVE join(_, _)
join(sep, words) ==
    IF words = <<>> THEN ""
    ELSE IF Len(words) = 1 THEN words[1]
    ELSE words[1] \o sep \o join(sep, Tail(words))

capitalize(w) ==
    IF w = "" THEN "" ELSE UpperCh(Ch(w, 1)) \o lower(SubSeq(w, 2, Len(w)))

RECURSIVE RemoveChars(_, _)
RemoveChars(s, cs) ==
    IF s = "" THEN ""
    ELSE (IF Head(s) \in cs THEN "" ELSE Head(s)) \o RemoveChars(Tail(s), cs)

RECURSIVE ReplaceCh(_, _, _)
ReplaceCh(s, c, d) ==
    IF s = "" THEN ""
    ELSE (IF Head(s) = c THEN d ELSE Head(s)) \o ReplaceCh(Tail(s), c, d)

\* regex \b between positions i-1 and i of s
WordBoundaryAt(s, i) ==
    LET before == i > 1 /\ IsWordCh(Ch(s, i - 1))
        after  == i <= Len(s) /\ IsWordCh(Ch(s, i))
    IN  before # after

SeqToSet(q) == {q[i] : i \in 1..Len(q)}

(***************************************************************************)
(* src/resolve/resolve_persons.py: normalizer and base noise filter        *)
(***************************************************************************)
NormalizeSuffixes ==
    <<", Esq.", " Esq.", ", Jr.", " Jr.", ", Sr.", " Sr.",
      ", III", " III", ", II", " II", ", IV", " IV",
      ", M.D.", " M.D.", ", Ph.D.", " Ph.D.", ", J.D.", " J.D.">>

RECURSIVE StripSuffixes(_, _)
StripSuffixes(s, i) ==
    IF i > Len(NormalizeSuffixes) THEN s
    ELSE LET suffix == NormalizeSuffixes[i]
         IN  StripSuffixes(IF endswith(s, suffix)
                           THEN strip(SubSeq(s, 1, Len(s) - Len(suffix)))
                           ELSE s, i + 1)

LastFirstSwap(s) ==
    LET j == FindCh(s, ",", 1)
    IN  IF j = 0 THEN s
        ELSE LET last == strip(SubSeq(s, 1, j - 1))
                 first_middle == strip(SubSeq(s, j + 1, Len(s)))
             IN  IF first_middle # "" /\ last # ""
                 THEN first_middle \o " " \o last
                 ELSE s

\* re.sub(r'\s*\([^)]*\)\s*', ' ', s); the whitespace the pattern swallows
\* is collapsed by the caller's ' '.join(s.split())
RECURSIVE RemoveParens(_)
RemoveParens(s) ==
    LET o == FindCh(s, "(", 1)
        c == IF o = 0 THEN 0 ELSE FindCh(s, ")", o + 1)
    IN  IF o = 0 \/ c = 0 THEN s
        ELSE SubSeq(s, 1, o - 1) \o " " \o RemoveParens(SubSeq(s, c + 1, Len(s)))

NormalizeNameOf(name) ==
    IF name = "" THEN ""
    ELSE join(" ", split(RemoveParens(LastFirstSwap(StripSuffixes(strip(name), 1)))))

NormalizeTable == MemoTable(NormalizeNameOf)

normalize_name(name) == Memo(NormalizeNameOf, NormalizeTable, name)

\* the short form of an already normalized name, given its words
ShortForm(normalized, parts) ==
    IF Len(parts) <= 2 THEN normalized
    ELSE parts[1] \o " " \o parts[Len(parts)]

ShortOfNormalized(normalized) == ShortForm(normalized, split(normalized))

get_short_name(name) == ShortOfNormalized(normalize_name(name))

NOISE_SUBSTRINGS ==
    <<"unknown person", "unknown company", "unknown organization",
      "unidentified", "unnamed", "redacted", "sealed",
      "various ", "multiple ", "participants", "attendees",
      "author", "narrator", "reporter",
      "plaintiff", "defendant", "witness", "victim", "employee",
      "the government", "the court", "prosecution", "defense counsel",
      "security clearance", "technology industry">>

\* the checks of looks_like_non_entity on s = name.strip(), its lowered
\* form and its count of alphabetic characters
NonEntityChecks(name, s, lowered, alpha) ==
    \/ name = ""
    \/ s = ""
    \/ contains(s, "\n") \/ contains(s, "\t")
    \/ contains(lowered, "http://") \/ contains(lowered, "https://")
    \/ (contains(s, "@") /\ contains(s, "."))
    \/ Len(s) > 90 \/ Len(split(s)) > 7
    \/ alpha = 0
    \/ (Len(s) >= 25 /\ alpha * 100 < 35 * Len(s))

NonEntityStripped(name, s) == NonEntityChecks(name, s, lower(s), CountCh(IsAlphaCh, s))

looks_like_non_entity(name) == NonEntityStripped(name, strip(name))

\* index of the first non-whitespace character at or after i
SkipSpaces(s, i) ==
    CHOOSE j \in i..(Len(s) + 1) :
        /\ \A k \in i..(j - 1) : IsSpaceCh(Ch(s, k))
        /\ (j = Len(s) + 1 \/ ~IsSpaceCh(Ch(s, j)))

\* index after the run of digits that starts at i
SkipDigits(s, i) ==
    CHOOSE j \in i..(Len(s) + 1) :
        /\ \A k \in i..(j - 1) : IsDigitCh(Ch(s, k))
        /\ (j = Len(s) + 1 \/ ~IsDigitCh(Ch(s, j)))

\* \s*[#]?\d+\b matched at position i of s
MatchNumberTail(s, i) ==
    LET j == SkipSpaces(s, i)
        k == IF j <= Len(s) /\ Ch(s, j) = "#" THEN j + 1 ELSE j
        d == SkipDigits(s, k)
    IN  d > k /\ WordBoundaryAt(s, d)

MatchWordPrefix(s, words) ==
    \E w \in words : startswith(s, w) /\ WordBoundaryAt(s, Len(w) + 1)

\* NOISE_REGEX, each rx.search(lowered); every pattern is anchored at ^
NoiseRegexMatch(lowered) ==
    \/ /\ startswith(lowered, "unknown")
       /\ LET rest == SubSeq(lowered, 8, Len(lowered))
          IN  \/ rest = ""
              \/ /\ IsSpaceCh(Ch(rest, 1))
                 /\ SubSeq(rest, SkipSpaces(rest, 1), Len(rest)) \in
                        {"person", "individual", "man", "woman", "company", "organization"}
    \/ MatchWordPrefix(lowered, {"unidentified", "unnamed"})
    \/ MatchWordPrefix(lowered, {"various", "multiple"})
    \/ \E w \in {"employee", "victim", "witness"} :
           startswith(lowered, w) /\ MatchNumberTail(lowered, Len(w) + 1)
    \/ \E w \in {"john", "jane"} :
           /\ startswith(lowered, w)
           /\ LET j == SkipSpaces(lowered, Len(w) + 1)
              IN  /\ j > Len(w) + 1
                  /\ startswith(SubSeq(lowered, j, Len(lowered)), "doe")
                  /\ MatchNumberTail(lowered, j + 3)
    \/ /\ startswith(lowered, "(b)(")
       /\ LET d == SkipDigits(lowered, 5)
          IN  d > 5 /\ d <= Len(lowered) /\ Ch(lowered, d) = ")"

\* the checks of is_noise_entity_name on the lowered normalized name
NoiseLowered(lowered) ==
    \/ lowered = ""
    \/ \E i \in 1..Len(NOISE_SUBSTRINGS) : contains(lowered, NOISE_SUBSTRINGS[i])
    \/ NoiseRegexMatch(lowered)

is_noise_entity_name(name) ==
    \/ looks_like_non_entity(name)
    \/ NoiseLowered(strip(lower(normalize_name(name))))

\* re.search(NUMBERED_PATTERN, name) with IGNORECASE:
\* (?:Jane|John)\s+Doe\s*[#]?\d | Employee[- ]?\d | Detective\s*\d | Victim\s*[#]?\d
DigitAt(s, i) == i <= Len(s) /\ IsDigitCh(Ch(s, i))

HashThenDigit(s, i) == DigitAt(s, IF i <= Len(s) /\ Ch(s, i) = "#" THEN i + 1 ELSE i)

DoeAfter(s, j, from) ==
    /\ j > from
    /\ startswith(SubSeq(s, j, Len(s)), "doe")
    /\ HashThenDigit(s, SkipSpaces(s, j + 3))

NumberedAt(s, i) ==
    \/ /\ \E w \in {"jane", "john"} : startswith(SubSeq(s, i, Len(s)), w)
       /\ DoeAfter(s, SkipSpaces(s, i + 4), i + 4)
    \/ /\ startswith(SubSeq(s, i, Len(s)), "employee")
       /\ DigitAt(s, IF i + 8 <= Len(s) /\ Ch(s, i + 8) \in {"-", " "} THEN i + 9 ELSE i + 8)
    \/ /\ startswith(SubSeq(s, i, Len(s)), "detective")
       /\ DigitAt(s, SkipSpaces(s, i + 9))
    \/ /\ startswith(SubSeq(s, i, Len(s)), "victim")
       /\ HashThenDigit(s, SkipSpaces(s, i + 6))

NumberedLowered(lowered) == \E i \in 1..Len(lowered) : NumberedAt(lowered, i)

is_numbered_reference(name) == NumberedLowered(lower(name))

\* is_redaction_marker on name.strip().lower()
RedactionLowered(cleaned) ==
    \/ startswith(cleaned, "(b)")
    \/ contains(cleaned, "[redacted]") \/ contains(cleaned, "[sealed]")
    \/ cleaned \in {"unknown", "unidentified", "n/a", "redacted", "sealed"}
    \/ Len(cleaned) <= 1

is_redaction_marker(name) == name = "" \/ RedactionLowered(lower(strip(name)))

(***************************************************************************)
(* rapidfuzz as resolve uses it: fuzz.token_sort_ratio under               *)
(* process.extractOne. Scores are kept exact, as fractions <<n, d>> of 1   *)
(* (the score out of 100 is 100 * n / d).                                  *)
(***************************************************************************)
\* the printable ASCII characters that occur in names, in code point order
Ascii ==
    " !#$%&'()*+,-./0123456789:;<=>?@ABCDEFGHIJKLMNOPQRSTUVWXYZ[]^_abcdefghijklmnopqrstuvwxyz{|}~"

Ord(c) == PosIn(c, Ascii)

\* a < b on str
RECURSIVE StrLess(_, _)
StrLess(a, b) ==
    IF b = "" THEN FALSE
    ELSE IF a = "" THEN TRUE
    ELSE IF Ch(a, 1) = Ch(b, 1)
    THEN StrLess(SubSeq(a, 2, Len(a)), SubSeq(b, 2, Len(b)))
    ELSE Ord(Ch(a, 1)) < Ord(Ch(b, 1))

RECURSIVE InsertSorted(_, _)
InsertSorted(sorted, w) ==
    IF sorted = <<>> THEN <<w>>
    ELSE IF StrLess(w, Head(sorted)) THEN <<w>> \o sorted
    ELSE <<Head(sorted)>> \o InsertSorted(Tail(sorted), w)

\* sorted(words)
RECURSIVE SortWords(_)
SortWords(words) ==
    IF words = <<>> THEN <<>> ELSE InsertSorted(SortWords(Tail(words)), Head(words))

Max(a, b) == IF a >= b THEN a ELSE b

\* one row of the longest-common-subsequence table: prev is the row before
\* the character c, cur the entries of this row for the columns 0..j-1
RECURSIVE LcsRow(_, _, _, _, _)
LcsRow(prev, c, b, j, cur) ==
    IF j > Len(b) \/ Len(cur) # j THEN cur
    ELSE LcsRow(prev, c, b, j + 1,
                Append(cur, IF Ch(b, j) = c THEN prev[j] + 1
                            ELSE Max(prev[j + 1], cur[j])))

\* the table row by row: prev is the row of the first i-1 characters of a
RECURSIVE LcsFrom(_, _, _, _)
LcsFrom(a, b, i, prev) ==
    IF i > Len(a) \/ Len(prev) # Len(b) + 1 THEN prev[Len(b) + 1]
    ELSE LcsFrom(a, b, i + 1, LcsRow(prev, Ch(a, i), b, 1, <<0>>))

LcsLength(a, b) == LcsFrom(a, b, 1, [k \in 1..(Len(b) + 1) |-> 0])

\* fuzz.ratio: the normalized Indel similarity, 1 - distance / (len1 + len2)
Ratio(a, b) ==
    IF Len(a) + Len(b) = 0 THEN <<1, 1>> ELSE <<2 * LcsLength(a, b), Len(a) + Len(b)>>

token_sort_ratio(s1, s2) ==
    Ratio(join(" ", SortWords(split(s1))), join(" ", SortWords(split(s2))))

\* score >= k for a score out of 100
ScoreAtLeast(score, k) == 100 * score[1] >= k * score[2]

ScoreGreater(a, b) == a[1] * b[2] > b[1] * a[2]

\* the best choice so far after choice i scored score
BetterChoice(best, i, score, score_cutoff) ==
    IF ScoreAtLeast(score, score_cutoff) /\ (best = <<>> \/ ScoreGreater(score, best[1].score))
    THEN <<[idx |-> i, score |-> score]>>
    ELSE best

RECURSIVE ExtractFrom(_, _, _, _, _)
ExtractFrom(query, choices, score_cutoff, i, best) ==
    IF i > Len(choices) \/ Len(best) > 1 THEN best
    ELSE ExtractFrom(query, choices, score_cutoff, i + 1,
             BetterChoice(best, i, token_sort_ratio(query, choices[i]), score_cutoff))

\* process.extractOne(query, choices, scorer=fuzz.token_sort_ratio,
\* score_cutoff=...): a list of zero or one [idx, score], the first of the
\* choices of greatest score when that score reaches the cutoff
extractOne(query, choices, score_cutoff) == ExtractFrom(query, choices, score_cutoff, 1, <<>>)

(***************************************************************************)
(* src/resolve/resolve_persons.py: EntityResolver                          *)
(*   registry      canonical_id -> [canonical_name, aliases]               *)
(*   exact_lookup  lowered form -> canonical_id                            *)
(*   all_names     list of <<name, canonical_id>>                          *)
(***************************************************************************)
None == "None"

\* the empty JSON object
EmptyMeta == [bools |-> [k \in {} |-> FALSE], strings |-> [k \in {} |-> ""]]

EmptyResolver(fuzzy_threshold) ==
    [registry |-> [c \in {} |-> [canonical_name |-> "", aliases |-> <<>>,
                                 metadata |-> EmptyMeta]],
     exact_lookup |-> [k \in {} |-> None],
     all_names |-> <<>>,
     fuzzy_threshold |-> fuzzy_threshold]

\* d[key] = value on a dict
DictSet(d, key, value) == [k \in DOMAIN d \cup {key} |-> IF k = key THEN value ELSE d[k]]

\* self.exact_lookup[form] = canonical_id; self.all_names.append((name, canonical_id))
IndexForm(r, form, name, canonical_id) ==
    [r EXCEPT !.exact_lookup = DictSet(@, form, canonical_id),
              !.all_names = Append(@, <<name, canonical_id>>)]

IndexShort(r, canonical_id, raw, norm, short_name) ==
    IF lower(short_name) # "" /\ lower(short_name) # raw /\ lower(short_name) # norm
    THEN IndexForm(r, lower(short_name), short_name, canonical_id)
    ELSE r

IndexNorm(r, canonical_id, raw, normalized) ==
    IF lower(normalized) # "" /\ lower(normalized) # raw
    THEN IndexForm(r, lower(normalized), normalized, canonical_id)
    ELSE r

IndexForms(r, name, canonical_id, raw, normalized) ==
    IndexShort(IndexNorm(IndexForm(r, raw, name, canonical_id), canonical_id, raw, normalized),
               canonical_id, raw, lower(normalized), ShortOfNormalized(normalized))

_index_name(r, name, canonical_id) ==
    IndexForms(r, name, canonical_id, lower(name), normalize_name(name))

\* "for alias in aliases: if alias: self._index_name(alias, cid)"
RECURSIVE IndexAliases(_, _, _, _)
IndexAliases(r, aliases, canonical_id, i) ==
    IF i > Len(aliases) THEN r
    ELSE IndexAliases(IF aliases[i] # "" THEN _index_name(r, aliases[i], canonical_id) ELSE r,
                      aliases, canonical_id, i + 1)

\* an entry put in self.registry and its names indexed
RegisterEntry(r, canonical_id, canonical_name, aliases, metadata) ==
    IndexAliases(
        _index_name([r EXCEPT !.registry =
                        DictSet(@, canonical_id,
                                [canonical_name |-> canonical_name, aliases |-> aliases,
                                 metadata |-> metadata])],
                    canonical_name, canonical_id),
        aliases, canonical_id, 1)

\* add_to_registry as the ingestion steps call it: metadata left to its
\* default, "metadata or {}"
add_to_registry(r, canonical_id, canonical_name, aliases) ==
    RegisterEntry(r, canonical_id, canonical_name, aliases, EmptyMeta)

\* __init__ over the registry rows <<cid, canonical_name, aliases, metadata>>,
\* in order
RECURSIVE IndexRegistry(_, _, _)
IndexRegistry(r, rows, i) ==
    IF i > Len(rows) THEN r
    ELSE IndexRegistry(RegisterEntry(r, rows[i][1], rows[i][2], rows[i][3], rows[i][4]),
                       rows, i + 1)

EntityResolver(rows, fuzzy_threshold) == IndexRegistry(EmptyResolver(fuzzy_threshold), rows, 1)

NameStrings(r) == [i \in 1..Len(r.all_names) |-> r.all_names[i][1]]

Unresolved(method) == [cid |-> None, method |-> method, confidence |-> <<0, 1>>]

\* variant: the result of extractOne taken without the short-name test
FuzzyPickUnguarded(r, normalized, result) ==
    IF result = <<>> THEN Unresolved("no_match")
    ELSE [cid |-> r.all_names[result[1].idx][2], method |-> "fuzzy",
          confidence |-> result[1].score]

\* "if result:", the short-name test and the returned tuple
FuzzyPick(r, normalized, result) ==
    IF result = <<>> THEN Unresolved("no_match")
    ELSE IF Len(normalized) <= 10 /\ ~ScoreAtLeast(result[1].score, 95)
    THEN Unresolved("no_match")
    ELSE [cid |-> r.all_names[result[1].idx][2], method |-> "fuzzy",
          confidence |-> result[1].score]

FuzzyNormalized(r, normalized) ==
    FuzzyPick(r, normalized, extractOne(normalized, NameStrings(r), r.fuzzy_threshold))

\* Tier 2 of resolve
FuzzyTier(r, cleaned) ==
    IF is_numbered_reference(cleaned) THEN Unresolved("no_match")
    ELSE IF r.all_names = <<>> THEN Unresolved("no_match")
    ELSE FuzzyNormalized(r, normalize_name(cleaned))

ExactFor(r, form, cid) ==
    IF form = lower(r.registry[cid].canonical_name)
    THEN [cid |-> cid, method |-> "exact", confidence |-> <<1, 1>>]
    ELSE [cid |-> cid, method |-> "alias", confidence |-> <<95, 100>>]

\* the first of the forms that is a key of exact_lookup, as a list of zero or one
FirstIndexed(r, forms) ==
    IF \A i \in 1..Len(forms) : forms[i] \notin DOMAIN r.exact_lookup THEN <<>>
    ELSE <<forms[CHOOSE i \in 1..Len(forms) :
                    /\ forms[i] \in DOMAIN r.exact_lookup
                    /\ \A k \in 1..(i - 1) : forms[k] \notin DOMAIN r.exact_lookup]>>

ResolveExact(r, cleaned, hit) ==
    IF hit # <<>> THEN ExactFor(r, hit[1], r.exact_lookup[hit[1]])
    ELSE FuzzyTier(r, cleaned)

\* Tier 1 of resolve on the raw, normalized and short forms
ExactTier(r, cleaned, normalized) ==
    ResolveExact(r, cleaned,
        FirstIndexed(r, <<lower(cleaned), lower(normalized),
                          lower(ShortOfNormalized(normalized))>>))

\* variant: the exact tier tried without the noise test before it
ResolveCleanedUnfiltered(r, cleaned) == ExactTier(r, cleaned, normalize_name(cleaned))

\* "if is_noise_entity_name(cleaned)", then Tier 1
ResolveCleaned(r, cleaned) ==
    IF is_noise_entity_name(cleaned) THEN Unresolved("noise")
    ELSE ExactTier(r, cleaned, normalize_name(cleaned))

\* EntityResolver.resolve: [cid, method, confidence]
resolve(r, source_name) ==
    IF source_name = "" \/ strip(source_name) = "" THEN Unresolved("no_match")
    ELSE ResolveCleaned(r, strip(source_name))

\* the loop of merge_aliases: existing is the alias list of the registry
\* entry, appended to in place
RECURSIVE MergeAliasLoop(_, _, _, _, _)
MergeAliasLoop(r, canonical_id, cname_lower, new_aliases, i) ==
    IF i > Len(new_aliases) THEN r
    ELSE MergeAliasLoop(
             IF /\ new_aliases[i] # ""
                /\ lower(new_aliases[i]) \notin
                       ({lower(r.registry[canonical_id].aliases[k]) :
                            k \in 1..Len(r.registry[canonical_id].aliases)}
                        \cup {cname_lower})
             THEN [r EXCEPT !.registry[canonical_id].aliases = Append(@, new_aliases[i]),
                            !.exact_lookup = DictSet(@, lower(new_aliases[i]), canonical_id),
                            !.all_names = Append(@, <<new_aliases[i], canonical_id>>)]
             ELSE r,
             canonical_id, cname_lower, new_aliases, i + 1)

\* EntityResolver.merge_aliases: the resolver afterwards; the returned list
\* is the alias list of the entry
merge_aliases(r, canonical_id, new_aliases) ==
    IF canonical_id \notin DOMAIN r.registry THEN r
    ELSE MergeAliasLoop(r, canonical_id, lower(r.registry[canonical_id].canonical_name),
                        new_aliases, 1)

(***************************************************************************)
(* src/resolve/merge_entities.py: name heuristics                          *)
(***************************************************************************)
TITLE_PREFIXES ==
    <<"president ", "professor ", "prof. ", "senator ", "rep. ",
      "judge ", "justice ", "attorney ", "agent ",
      "dr. ", "mr. ", "mrs. ", "ms. ", "miss ",
      "sir ", "lord ", "lady ", "prince ", "princess ",
      "king ", "queen ", "sheikh ", "imam ",
      "general ", "colonel ", "captain ", "detective ",
      "governor ", "mayor ", "ambassador ">>

EXPANDED_NOISE_EXACT ==
    {"president", "attorney", "judge", "senator", "detective",
     "agent", "officer", "prosecutor", "prosecutors", "counsel",
     "public", "communication", "journalist", "journalists",
     "applicant", "appellant", "respondent",
     "government", "state", "country",
     "federal prosecutors", "federal agents", "federal government",
     "law enforcement", "defense counsel", "legal counsel",
     "epstein case", "jeffrey epstein appellate case"}

NOISE_FIRST_NAMES ==
    {"mary", "david", "sarah", "john", "james", "michael", "robert",
     "tony", "leon", "eva", "rebecca", "bruce", "roger", "ralph",
     "warren", "mark", "steve", "chris", "peter", "paul", "george",
     "jane", "tom", "joe"}

PROTECTED_SINGLE_WORDS ==
    {"hamas", "isis", "hezbollah", "mossad", "interpol",
     "libya", "iraq", "iran", "syria", "yemen", "qatar", "dubai",
     "harvard", "yale", "princeton", "stanford", "columbia", "mit",
     "citibank", "barclays", "jpmorgan", "wexner", "victoria"}

\* index after the run of \w characters that starts at i
SkipWord(s, i) ==
    CHOOSE j \in i..(Len(s) + 1) :
        /\ \A k \in i..(j - 1) : IsWordCh(Ch(s, k))
        /\ (j = Len(s) + 1 \/ ~IsWordCh(Ch(s, j)))

\* ^\w+\s+\?$
PatQuestionMark(s) ==
    LET w == SkipWord(s, 1)
        j == SkipSpaces(s, w)
    IN  w > 1 /\ j > w /\ j = Len(s) /\ Ch(s, j) = "?"

\* ^(Jeffrey\s+)?Epstein\s+(case|appellate|investigation|matter), IGNORECASE
EpsteinSubject(rest, j) ==
    /\ j > 8
    /\ \E w \in {"case", "appellate", "investigation", "matter"} :
           startswith(SubSeq(rest, j, Len(rest)), w)

EpsteinRest(rest) == startswith(rest, "epstein") /\ EpsteinSubject(rest, SkipSpaces(rest, 8))

EpsteinFrom(ls, j) ==
    EpsteinRest(SubSeq(ls, IF startswith(ls, "jeffrey") /\ j > 8 THEN j ELSE 1, Len(ls)))

EpsteinLowered(ls) == EpsteinFrom(ls, SkipSpaces(ls, 8))

PatEpsteinCase(s) == EpsteinLowered(lower(s))

\* ^\w{1,2}$
PatShort(s) == Len(s) \in {1, 2} /\ \A i \in 1..Len(s) : IsWordCh(Ch(s, i))

\* ^[A-Z]\.[A-Z]\.$
PatInitials(s) ==
    /\ Len(s) = 4
    /\ IsUpperCh(Ch(s, 1)) /\ Ch(s, 2) = "."
    /\ IsUpperCh(Ch(s, 3)) /\ Ch(s, 4) = "."

\* the checks of is_expanded_noise on s = name.strip() and its lowered form
ExpandedNoiseChecks(s, lowered) ==
    IF is_noise_entity_name(s) THEN TRUE
    ELSE IF lowered \in PROTECTED_SINGLE_WORDS THEN FALSE
    ELSE \/ lowered \in EXPANDED_NOISE_EXACT
         \/ (~contains(s, " ") /\ lowered \in NOISE_FIRST_NAMES)
         \/ endswith(s, " ?") \/ (endswith(s, "?") /\ Len(s) <= 15)
         \/ PatQuestionMark(s) \/ PatEpsteinCase(s)
         \/ PatShort(s) \/ PatInitials(s)

ExpandedNoiseStripped(s) == s = "" \/ ExpandedNoiseChecks(s, strip(lower(s)))

IsExpandedNoiseOf(name) == name = "" \/ ExpandedNoiseStripped(strip(name))

ExpandedNoiseTable == MemoTable(IsExpandedNoiseOf)

is_expanded_noise(name) == Memo(IsExpandedNoiseOf, ExpandedNoiseTable, name)

HasTitlePrefix(lowered) ==
    \E i \in 1..Len(TITLE_PREFIXES) : startswith(lowered, TITLE_PREFIXES[i])

\* no title prefix is a prefix of another, so at most one applies to a
\* string and the loops of strip_titles peel them one at a time
RECURSIVE StripTitlesLoop(_)
StripTitlesLoop(s) ==
    IF HasTitlePrefix(lower(s))
    THEN LET i == CHOOSE k \in 1..Len(TITLE_PREFIXES) :
                      startswith(lower(s), TITLE_PREFIXES[k])
         IN  StripTitlesLoop(strip(SubSeq(s, Len(TITLE_PREFIXES[i]) + 1, Len(s))))
    ELSE s

StripTitlesOf(name) == StripTitlesLoop(strip(name))

StripTitlesTable == MemoTable(StripTitlesOf)

strip_titles(name) == Memo(StripTitlesOf, StripTitlesTable, name)

TitleCasePart(part) ==
    IF contains(part, "-")
    THEN LET ws == splitOn(part, "-")
         IN  join("-", [i \in 1..Len(ws) |-> capitalize(ws[i])])
    ELSE IF upper(part) = part /\ Len(part) <= 3 /\ contains(part, ".")
    THEN part
    ELSE capitalize(part)

ToTitleCaseOf(name) ==
    LET alpha == CountCh(IsAlphaCh, name)
        up == CountCh(IsUpperCh, name)
    IN  IF alpha = 0 THEN name
        ELSE IF up * 10 < 7 * alpha THEN name
        ELSE LET parts == split(name)
             IN  join(" ", [i \in 1..Len(parts) |-> TitleCasePart(parts[i])])

TitleCaseTable == MemoTable(ToTitleCaseOf)

to_title_case(name) == Memo(ToTitleCaseOf, TitleCaseTable, name)

DropStutter(words) ==
    IF Len(words) >= 3 /\ words[1] = words[2] THEN Tail(words) ELSE words

DropMiddleInitials(words) ==
    IF Len(words) >= 3
    THEN SelectSeq([i \in 1..Len(words) |-> <<i, words[i]>>],
                   LAMBDA p : ~(1 < p[1] /\ p[1] < Len(words) /\ Len(p[2]) = 1))
    ELSE [i \in 1..Len(words) |-> <<i, words[i]>>]

\* the words of the indexed pairs that DropMiddleInitials kept
KeptWords(pairs) == [i \in 1..Len(pairs) |-> pairs[i][2]]

\* the steps of clean_name_for_matching after the lowering
CleanLowered(s2) ==
    join(" ", split(join(" ", KeptWords(DropMiddleInitials(DropStutter(
        split(ReplaceCh(RemoveChars(s2, {".", ","}), "-", " "))))))))

CleanNameOf(name) ==
    CleanLowered(strip(lower(normalize_name(to_title_case(strip_titles(strip(name)))))))

CleanNameTable == MemoTable(CleanNameOf)

clean_name_for_matching(name) == Memo(CleanNameOf, CleanNameTable, name)

\* the body of the loop of find_name_cleanups
PreferStripped(name, stripped) ==
    IF stripped # "" /\ stripped # name THEN stripped ELSE name

DropDisplayStutter(cased, words) ==
    IF Len(words) >= 3 /\ lower(words[1]) = lower(words[2])
    THEN join(" ", Tail(words)) ELSE cased

CollapseCased(cased) == join(" ", split(DropDisplayStutter(cased, split(cased))))

CleanedDisplayNameOf(name) ==
    CollapseCased(to_title_case(PreferStripped(name, strip_titles(name))))

CleanedDisplayTable == MemoTable(CleanedDisplayNameOf)

CleanedDisplayName(name) == Memo(CleanedDisplayNameOf, CleanedDisplayTable, name)

\* the reason for a name, given name.strip() and its lowered form
ClassifyStripped(name, s, lowered) ==
    IF lowered \in EXPANDED_NOISE_EXACT THEN "generic_word:" \o lowered
    ELSE IF ~contains(s, " ") /\ lowered \in NOISE_FIRST_NAMES
    THEN "standalone_first_name:" \o lowered
    ELSE IF endswith(name, " ?") \/ endswith(name, "?") THEN "question_mark_placeholder"
    ELSE IF is_noise_entity_name(name) THEN "base_noise_filter"
    ELSE IF PatQuestionMark(name) THEN "pattern_match:^\\w+\\s+\\?$"
    ELSE IF PatEpsteinCase(name)
    THEN "pattern_match:^(Jeffrey\\s+)?Epstein\\s+(case|appellate|investigation|matter)"
    ELSE IF PatShort(name) THEN "pattern_match:^\\w{1,2}$"
    ELSE IF PatInitials(name) THEN "pattern_match:^[A-Z]\\.[A-Z]\\.$"
    ELSE "expanded_noise"

ClassifyWithStripped(name, s) == ClassifyStripped(name, s, lower(s))

ClassifyNoiseOf(name) == ClassifyWithStripped(name, strip(name))

ClassifyNoiseTable == MemoTable(ClassifyNoiseOf)

_classify_noise(name) == Memo(ClassifyNoiseOf, ClassifyNoiseTable, name)

(***************************************************************************)
(* The store: the tables of src/utils/create_db.py and entity_merges.      *)
(* A store value is a record with one field per table.                     *)
(*   canonical_entities     sequence of rows, in rowid order               *)
(*   relationships          set of rows, keyed by relationship_id          *)
(*   relationship_sources   set of rows, keyed by id                       *)
(*   entity_resolution_log  set of rows, keyed by resolution_id            *)
(*   entity_merges          sequence of rows, merge_id = position          *)
(*   document_ids           set of doc_key values                          *)
(* aliases is the decoded JSON array; metadata the decoded JSON object,    *)
(* split by value type into bools and strings (absent key = not in DOMAIN).*)
(***************************************************************************)
DOC_CAP == 200

PROMINENCE_THRESHOLD == 50

EntityIds(store) ==
    {store.canonical_entities[i].canonical_id : i \in 1..Len(store.canonical_entities)}

\* SELECT ... FROM canonical_entities WHERE canonical_id = ?  (fetchone)
HasEntity(store, cid) == cid \in EntityIds(store)

EntityRow(store, cid) ==
    store.canonical_entities[CHOOSE i \in 1..Len(store.canonical_entities) :
                                 store.canonical_entities[i].canonical_id = cid]

UpdateEntity(store, cid, F(_)) ==
    [store EXCEPT !.canonical_entities =
        [i \in 1..Len(store.canonical_entities) |->
            IF store.canonical_entities[i].canonical_id = cid
            THEN F(store.canonical_entities[i])
            ELSE store.canonical_entities[i]]]

DeleteEntity(store, cid) ==
    [store EXCEPT !.canonical_entities =
        SelectSeq(store.canonical_entities, LAMBDA e : e.canonical_id # cid)]

Touches(r, cid) == r.source_entity_id = cid \/ r.target_entity_id = cid

TouchingRels(store, cid) == {r \in store.relationships : Touches(r, cid)}

_get_prominence(store, cid) == Cardinality(TouchingRels(store, cid))

_get_neighbors(store, cid) ==
    UNION {{r.source_entity_id, r.target_entity_id} : r \in TouchingRels(store, cid)}
        \ {cid}

IsFlagged(meta) ==
    "exclude_from_analysis" \in DOMAIN meta.bools /\ meta.bools["exclude_from_analysis"]

\* bool is a subclass of int in Python: two bools meet in the numeric
\* branch and max(True, False) is True
_merge_metadata(survivor_meta, absorbed_meta) ==
    [bools |-> [k \in DOMAIN survivor_meta.bools \cup DOMAIN absorbed_meta.bools |->
                   IF k \notin DOMAIN absorbed_meta.bools THEN survivor_meta.bools[k]
                   ELSE IF k \notin DOMAIN survivor_meta.bools THEN absorbed_meta.bools[k]
                   ELSE survivor_meta.bools[k] \/ absorbed_meta.bools[k]],
     strings |-> [k \in DOMAIN survivor_meta.strings \cup DOMAIN absorbed_meta.strings |->
                   IF k \in DOMAIN survivor_meta.strings THEN survivor_meta.strings[k]
                   ELSE absorbed_meta.strings[k]]]

LowerSet(names) == {lower(names[i]) : i \in 1..Len(names)}

\* the alias loop of merge_entity_pair: existing_lower is the lowered
\* aliases so far plus the lowered survivor name
RECURSIVE AddAliases(_, _, _)
AddAliases(surv_aliases, survivor_name, new) ==
    IF new = <<>> THEN surv_aliases
    ELSE LET alias == Head(new)
             existing_lower == LowerSet(surv_aliases) \cup {lower(survivor_name)}
         IN  AddAliases(IF alias # "" /\ lower(alias) \notin existing_lower
                        THEN Append(surv_aliases, alias) ELSE surv_aliases,
                        survivor_name, Tail(new))

MergeAliases(survivor, absorbed) ==
    LET existing_lower == LowerSet(survivor.aliases) \cup {lower(survivor.canonical_name)}
        with_name == IF lower(absorbed.canonical_name) \notin existing_lower
                     THEN Append(survivor.aliases, absorbed.canonical_name)
                     ELSE survivor.aliases
    IN  AddAliases(with_name, survivor.canonical_name, absorbed.aliases)

(***************************************************************************)
(* _consolidate_duplicate_relationships                                    *)
(***************************************************************************)
\* variant: the key without sorted(), i.e. the pair as (source, target)
OrderedGroupKey(r) == <<<<r.source_entity_id, r.target_entity_id>>, r.relationship_type>>

\* tuple(sorted([source, target])) + type: the unordered pair and the type
GroupKey(r) == <<{r.source_entity_id, r.target_entity_id}, r.relationship_type>>

GroupsOf(rels) == {{r \in rels : GroupKey(r) = GroupKey(q)} : q \in rels}

Arrangements(S) ==
    {f \in [1..Cardinality(S) -> S] : \A i, j \in 1..Cardinality(S) : i # j => f[i] # f[j]}

\* group.sort(key=-weight) is stable and the SELECT has no ORDER BY: the
\* sorted group is any arrangement with weights in descending order
SortedOrders(group) ==
    {f \in Arrangements(group) :
        \A i \in 1..(Cardinality(group) - 1) : f[i].weight >= f[i + 1].weight}

\* list(set(a + b))[:200]
CapDocs(docs) ==
    IF Cardinality(docs) <= DOC_CAP THEN docs
    ELSE CHOOSE T \in SUBSET docs : Cardinality(T) = DOC_CAP

\* variant: the provenance rows of the loser are deleted with it
DropRelationshipSources(sources, survivor_rid, loser_rid) ==
    {p \in sources : p.relationship_id # loser_rid}

\* UPDATE relationship_sources SET relationship_id = survivor_rid
\* WHERE relationship_id = loser_rid
MoveRelationshipSources(sources, survivor_rid, loser_rid) ==
    {IF p.relationship_id = loser_rid
     THEN [p EXCEPT !.relationship_id = survivor_rid]
     ELSE p : p \in sources}

\* variant: the iteration without its DELETE of the loser row
ConsolidateLoserKeepingRow(store, survivor_rel, loser) ==
    LET survivor_rid == survivor_rel.relationship_id
        loser_rid == loser.relationship_id
        merged_docs == CapDocs(survivor_rel.source_documents \cup loser.source_documents)
        new_weight == survivor_rel.weight + loser.weight
    IN  [store EXCEPT
            !.relationships =
                {IF r.relationship_id = survivor_rid
                 THEN [r EXCEPT !.weight = new_weight, !.source_documents = merged_docs]
                 ELSE r : r \in store.relationships},
            !.relationship_sources =
                MoveRelationshipSources(store.relationship_sources, survivor_rid, loser_rid)]

\* one iteration of "for loser in group[1:]"; survivor_rel is the row as
\* it was fetched before the loop
ConsolidateLoser(store, survivor_rel, loser) ==
    LET survivor_rid == survivor_rel.relationship_id
        loser_rid == loser.relationship_id
        merged_docs == CapDocs(survivor_rel.source_documents \cup loser.source_documents)
        new_weight == survivor_rel.weight + loser.weight
    IN  [store EXCEPT
            !.relationships =
                {IF r.relationship_id = survivor_rid
                 THEN [r EXCEPT !.weight = new_weight, !.source_documents = merged_docs]
                 ELSE r : r \in {q \in store.relationships : q.relationship_id # loser_rid}},
            !.relationship_sources =
                MoveRelationshipSources(store.relationship_sources, survivor_rid, loser_rid)]

RECURSIVE ConsolidateGroup(_, _, _)
ConsolidateGroup(store, sorted, i) ==
    IF i > Len(sorted) THEN store
    ELSE ConsolidateGroup(ConsolidateLoser(store, sorted[1], sorted[i]), sorted, i + 1)

\* the possible stores after the groups in todo have been handled
RECURSIVE ConsolidateGroups(_, _)
ConsolidateGroups(stores, todo) ==
    IF todo = {} THEN stores
    ELSE LET group == CHOOSE g \in todo : TRUE
         IN  ConsolidateGroups(
                 {ConsolidateGroup(st, sorted, 2) :
                      st \in stores, sorted \in SortedOrders(group)},
                 todo \ {group})

\* the outcomes [store, consolidated] of one call
_consolidate_duplicate_relationships(store, entity_id) ==
    LET dup == {g \in GroupsOf(TouchingRels(store, entity_id)) : Cardinality(g) >= 2}
        consolidated == Cardinality(UNION dup) - Cardinality(dup)
    IN  {[store |-> st, consolidated |-> consolidated] :
            st \in ConsolidateGroups({store}, dup)}

(***************************************************************************)
(* merge_entity_pair, delete_noise_entity, flag_noise_entity               *)
(***************************************************************************)
ZeroMergeStats ==
    [relationships_repointed |-> 0, resolution_logs_repointed |-> 0,
     duplicate_rels_consolidated |-> 0]

\* variant: the UPDATE run for the source_entity_id column only
RepointSourceColumnOnly(store, survivor_id, absorbed_id) ==
    [store EXCEPT !.relationships =
        {[r EXCEPT !.source_entity_id =
                       IF @ = absorbed_id THEN survivor_id ELSE @] :
             r \in store.relationships}]

\* UPDATE relationships SET col = survivor WHERE col = absorbed, for both
\* columns, and the same on entity_resolution_log
RepointRelationships(store, survivor_id, absorbed_id) ==
    [store EXCEPT !.relationships =
        {[r EXCEPT !.source_entity_id =
                       IF @ = absorbed_id THEN survivor_id ELSE @,
                   !.target_entity_id =
                       IF @ = absorbed_id THEN survivor_id ELSE @] :
             r \in store.relationships}]

\* variant: the merge without its UPDATE entity_resolution_log
KeepResolutionLog(store, survivor_id, absorbed_id) == store

RepointResolutionLog(store, survivor_id, absorbed_id) ==
    [store EXCEPT !.entity_resolution_log =
        {[l EXCEPT !.canonical_id = IF @ = absorbed_id THEN survivor_id ELSE @] :
             l \in store.entity_resolution_log}]

\* step 5: DELETE the provenance and the row of every survivor-survivor edge
RemoveSelfReferences(store, survivor_id) ==
    LET self_refs == {r.relationship_id : r \in
                        {q \in store.relationships :
                            q.source_entity_id = survivor_id /\ q.target_entity_id = survivor_id}}
    IN  [store EXCEPT
            !.relationship_sources = {p \in @ : p.relationship_id \notin self_refs},
            !.relationships = {r \in @ : r.relationship_id \notin self_refs}]

MergeRow(survivor_id, absorbed_id, survivor_name, absorbed_name, reason, match_key, stats) ==
    [survivor_id |-> survivor_id, absorbed_id |-> absorbed_id,
     survivor_name |-> survivor_name, absorbed_name |-> absorbed_name,
     merge_reason |-> reason, match_key |-> match_key,
     relationships_repointed |-> stats.relationships_repointed,
     resolution_logs_repointed |-> stats.resolution_logs_repointed,
     duplicate_rels_consolidated |-> stats.duplicate_rels_consolidated]

\* the outcomes [store, stats, acted] of one call; acted tells that both
\* rows existed, i.e. that the call printed (dry run) or merged
merge_entity_pair(store, survivor_id, absorbed_id, reason, match_key, dry) ==
    IF ~HasEntity(store, survivor_id) \/ ~HasEntity(store, absorbed_id)
    THEN {[store |-> store, stats |-> ZeroMergeStats, acted |-> FALSE]}
    ELSE IF dry
    THEN {[store |-> store, stats |-> ZeroMergeStats, acted |-> TRUE]}
    ELSE
    LET survivor == EntityRow(store, survivor_id)
        absorbed == EntityRow(store, absorbed_id)
        st1 == UpdateEntity(store, survivor_id,
                   LAMBDA e : [e EXCEPT !.aliases = MergeAliases(survivor, absorbed),
                                        !.last_updated = "cleanup",
                                        !.metadata = _merge_metadata(survivor.metadata,
                                                                     absorbed.metadata)])
        repointed == Cardinality({r \in store.relationships :
                                     r.source_entity_id = absorbed_id})
                   + Cardinality({r \in store.relationships :
                                     r.target_entity_id = absorbed_id})
        logs == Cardinality({l \in store.entity_resolution_log :
                                l.canonical_id = absorbed_id})
        st3 == RepointResolutionLog(RepointRelationships(st1, survivor_id, absorbed_id),
                                    survivor_id, absorbed_id)
    IN  {LET stats == [relationships_repointed |-> repointed,
                       resolution_logs_repointed |-> logs,
                       duplicate_rels_consolidated |-> c.consolidated]
             st6 == DeleteEntity(RemoveSelfReferences(c.store, survivor_id), absorbed_id)
         IN  [store |-> [st6 EXCEPT !.entity_merges =
                            Append(@, MergeRow(survivor_id, absorbed_id,
                                               survivor.canonical_name,
                                               absorbed.canonical_name,
                                               reason, match_key, stats))],
              stats |-> stats, acted |-> TRUE] :
            c \in _consolidate_duplicate_relationships(st3, survivor_id)}

\* variant: the deletion without its INSERT INTO entity_merges
delete_noise_entity_unlogged(store, canonical_id, name, reason, dry) ==
    IF dry THEN store
    ELSE
    LET rel_ids == {r.relationship_id : r \in TouchingRels(store, canonical_id)}
        st1 == [store EXCEPT
                   !.relationship_sources = {p \in @ : p.relationship_id \notin rel_ids},
                   !.relationships = {r \in @ : r.relationship_id \notin rel_ids},
                   !.entity_resolution_log = {l \in @ : l.canonical_id # canonical_id}]
    IN  DeleteEntity(st1, canonical_id)

\* variant: the deletion without its DELETE FROM relationship_sources
delete_noise_entity_keeping_sources(store, canonical_id, name, reason, dry) ==
    IF dry THEN store
    ELSE
    LET rel_ids == {r.relationship_id : r \in TouchingRels(store, canonical_id)}
        st1 == [store EXCEPT
                   !.relationships = {r \in @ : r.relationship_id \notin rel_ids},
                   !.entity_resolution_log = {l \in @ : l.canonical_id # canonical_id}]
        st2 == DeleteEntity(st1, canonical_id)
    IN  [st2 EXCEPT !.entity_merges =
            Append(@, MergeRow("NOISE_DELETED", canonical_id, "N/A", name,
                               "noise_removal: " \o reason, lower(name), ZeroMergeStats))]

delete_noise_entity(store, canonical_id, name, reason, dry) ==
    IF dry THEN store
    ELSE
    LET rel_ids == {r.relationship_id : r \in TouchingRels(store, canonical_id)}
        st1 == [store EXCEPT
                   !.relationship_sources = {p \in @ : p.relationship_id \notin rel_ids},
                   !.relationships = {r \in @ : r.relationship_id \notin rel_ids},
                   !.entity_resolution_log = {l \in @ : l.canonical_id # canonical_id}]
        st2 == DeleteEntity(st1, canonical_id)
    IN  [st2 EXCEPT !.entity_merges =
            Append(@, MergeRow("NOISE_DELETED", canonical_id, "N/A", name,
                               "noise_removal: " \o reason, lower(name), ZeroMergeStats))]

\* variant: the flagging without its dry_run early return
flag_noise_entity_always(store, canonical_id, name, reason, dry) ==
    UpdateEntity(store, canonical_id,
        LAMBDA e : [e EXCEPT
            !.metadata.bools =
                [k \in DOMAIN @ \cup {"exclude_from_analysis"} |->
                    IF k = "exclude_from_analysis" THEN TRUE ELSE @[k]],
            !.metadata.strings =
                [k \in DOMAIN @ \cup {"exclude_reason"} |->
                    IF k = "exclude_reason" THEN reason ELSE @[k]],
            !.last_updated = "cleanup"])

flag_noise_entity(store, canonical_id, name, reason, dry) ==
    IF dry THEN store
    ELSE UpdateEntity(store, canonical_id,
             LAMBDA e : [e EXCEPT
                 !.metadata.bools =
                     [k \in DOMAIN @ \cup {"exclude_from_analysis"} |->
                         IF k = "exclude_from_analysis" THEN TRUE ELSE @[k]],
                 !.metadata.strings =
                     [k \in DOMAIN @ \cup {"exclude_reason"} |->
                         IF k = "exclude_reason" THEN reason ELSE @[k]],
                 !.last_updated = "cleanup"])

\* find_noise_entities: (deletable, flaggable), each a list of
\* (cid, name, reason) in registry order
NoiseCandidates(store) ==
    SelectSeq(store.canonical_entities,
              LAMBDA e : is_expanded_noise(e.canonical_name) /\ ~IsFlagged(e.metadata))

NoiseTriple(e) == <<e.canonical_id, e.canonical_name, _classify_noise(e.canonical_name)>>

NoiseTriples(entities) == [i \in 1..Len(entities) |-> NoiseTriple(entities[i])]

\* variant: the test "prom >= 50" in place of "prom > 50"
IsProminentInclusive(store, cid) == _get_prominence(store, cid) >= PROMINENCE_THRESHOLD

\* if prom > 50: flaggable, else: deletable
IsProminent(store, cid) == _get_prominence(store, cid) > PROMINENCE_THRESHOLD

SplitByProminence(store, noise) ==
    [deletable |-> NoiseTriples(SelectSeq(noise,
                       LAMBDA e : ~IsProminent(store, e.canonical_id))),
     flaggable |-> NoiseTriples(SelectSeq(noise,
                       LAMBDA e : IsProminent(store, e.canonical_id)))]

find_noise_entities(store) == SplitByProminence(store, NoiseCandidates(store))

\* find_name_cleanups: list of (cid, old_name, new_name)
CleanupTriple(e) ==
    <<e.canonical_id, e.canonical_name, CleanedDisplayName(e.canonical_name)>>

\* "if cleaned != name" on the triples
ChangedOnly(triples) == SelectSeq(triples, LAMBDA t : t[3] # t[2])

find_name_cleanups(store) ==
    ChangedOnly([i \in 1..Len(store.canonical_entities) |->
                    CleanupTriple(store.canonical_entities[i])])

\* variant: the UPDATE without its WHERE canonical_id = ? clause
RenameEveryEntity(store, cid, old_name, new_name) ==
    [store EXCEPT !.canonical_entities =
        [i \in 1..Len(@) |-> [@[i] EXCEPT !.canonical_name = new_name,
                                          !.last_updated = "cleanup"]]]

\* the non-dry-run branch of the Phase 3 loop of main
RenameEntity(store, cid, old_name, new_name) ==
    UpdateEntity(store, cid,
        LAMBDA e : [e EXCEPT
            !.canonical_name = new_name,
            !.aliases = IF lower(old_name) \notin (LowerSet(@) \cup {lower(new_name)})
                        THEN Append(@, old_name) ELSE @,
            !.last_updated = "cleanup"])

(***************************************************************************)
(* find_merge_candidates                                                   *)
(***************************************************************************)
Persons(store) ==
    SelectSeq(store.canonical_entities, LAMBDA e : e.entity_type = "person")

RECURSIVE Flatten(_)
Flatten(seqs) == IF seqs = <<>> THEN <<>> ELSE Head(seqs) \o Flatten(Tail(seqs))

\* the order of first occurrence: a dict keeps insertion order
RECURSIVE Dedupe(_)
Dedupe(q) ==
    IF q = <<>> THEN <<>>
    ELSE LET front == Dedupe(SubSeq(q, 1, Len(q) - 1))
             x == q[Len(q)]
         IN  IF x \in SeqToSet(front) THEN front ELSE Append(front, x)

\* the appends to clean_to_entities, in order: <<cleaned, cid, cname>>
OwnPosting(e, cleaned) ==
    IF cleaned # "" THEN <<<<cleaned, e.canonical_id, e.canonical_name>>>> ELSE <<>>

\* the aliases with their cleaned forms: <<cleaned alias, alias>>
AliasPairs(aliases) ==
    [i \in 1..Len(aliases) |-> <<clean_name_for_matching(aliases[i]), aliases[i]>>]

\* "if alias" and "if ca and ca != cleaned"
UsablePairs(pairs, cleaned) ==
    SelectSeq(pairs, LAMBDA p : p[2] # "" /\ p[1] # "" /\ p[1] # cleaned)

AliasPostings(e, usable) ==
    [i \in 1..Len(usable) |-> <<usable[i][1], e.canonical_id, e.canonical_name>>]

PostingsWith(e, cleaned) ==
    OwnPosting(e, cleaned) \o AliasPostings(e, UsablePairs(AliasPairs(e.aliases), cleaned))

CleanPostings(e) == PostingsWith(e, clean_name_for_matching(e.canonical_name))

HasTitle(name) == HasTitlePrefix(lower(name))

\* the sort key (-prominence, titled, all caps) of Pass 1, compared as tuples
SortKey(store, item) ==
    <<_get_prominence(store, item[1]), HasTitle(item[2]), item[2] = upper(item[2])>>

KeyLess(ka, kb) ==
    \/ ka[1] > kb[1]
    \/ ka[1] = kb[1] /\ ~ka[2] /\ kb[2]
    \/ ka[1] = kb[1] /\ ka[2] = kb[2] /\ ~ka[3] /\ kb[3]

SortKeyLess(store, a, b) == KeyLess(SortKey(store, a), SortKey(store, b))

\* list.sort is stable
StableSort(items, Less(_, _)) ==
    LET n == Len(items)
        rank(k) == Cardinality({m \in 1..n :
                       Less(items[m], items[k]) \/ (~Less(items[k], items[m]) /\ m < k)})
    IN  [p \in 1..n |-> items[CHOOSE k \in 1..n : rank(k) = p - 1]]

MergeReasons(absorbed_name, survivor_name) ==
    LET reasons ==
            (IF HasTitle(absorbed_name) THEN <<"title_prefix">> ELSE <<>>)
         \o (IF absorbed_name = upper(absorbed_name) /\ Len(absorbed_name) > 3
             THEN <<"all_caps_variant">> ELSE <<>>)
         \o (IF contains(absorbed_name, "-") /\ contains(survivor_name, " ")
             THEN <<"hyphen_normalization">> ELSE <<>>)
    IN  join("; ", IF reasons = <<>> THEN <<"cleaned_name_match">> ELSE reasons)

\* "for absorbed_id, absorbed_name in items[1:]" with acc = [candidates, seen_absorbed]
RECURSIVE AbsorbItems(_, _, _, _)
AbsorbItems(acc, items, cleaned, i) ==
    IF i > Len(items) THEN acc
    ELSE LET survivor_id == items[1][1]
             absorbed_id == items[i][1]
         IN  AbsorbItems(
                 IF absorbed_id = survivor_id \/ absorbed_id \in acc.seen_absorbed THEN acc
                 ELSE [candidates |-> Append(acc.candidates,
                                         <<survivor_id, absorbed_id,
                                           MergeReasons(items[i][2], items[1][2]), cleaned>>),
                       seen_absorbed |-> acc.seen_absorbed \cup {absorbed_id}],
                 items, cleaned, i + 1)

\* the entities of one cleaned name, each id once: <<cid, cname>>
UniqueOf(entities, ids) ==
    [i \in 1..Len(ids) |->
        <<ids[i], (CHOOSE p \in SeqToSet(entities) : p[2] = ids[i])[3]>>]

UniqueItems(entities) ==
    UniqueOf(entities, Dedupe([i \in 1..Len(entities) |-> entities[i][2]]))

\* "if len(unique) < 2: continue", the sort, and the loop over items[1:]
AbsorbGroup(store, acc, cleaned, unique) ==
    IF Len(unique) < 2 THEN acc
    ELSE AbsorbItems(acc, StableSort(unique, LAMBDA a, b : SortKeyLess(store, a, b)),
                     cleaned, 2)

\* "for cleaned, entities in clean_to_entities.items()"
RECURSIVE Pass1(_, _, _, _, _)
Pass1(store, acc, postings, keys, k) ==
    IF k > Len(keys) THEN acc
    ELSE Pass1(store,
               AbsorbGroup(store, acc, keys[k],
                   UniqueItems(SelectSeq(postings, LAMBDA p : p[1] = keys[k]))),
               postings, keys, k + 1)

\* Jaccard overlaps are kept as fractions <<intersection, union>>
FracGreater(a, b) == a[1] * b[2] > b[1] * a[2]

\* one candidate of the loop of _disambiguate_by_graph
JaccardStep(st, candidate, cand_neighbors, jaccard) ==
    IF cand_neighbors = {} THEN st
    ELSE IF FracGreater(jaccard, st.best_overlap)
    THEN [best_overlap |-> jaccard, best_candidate |-> <<candidate>>,
          second_best |-> st.best_overlap]
    ELSE IF FracGreater(jaccard, st.second_best)
    THEN [st EXCEPT !.second_best = jaccard]
    ELSE st

Jaccard(a, b) == <<Cardinality(a \cap b), Cardinality(a \cup b)>>

NeighborStep(st, candidate, absorbed_neighbors, cand_neighbors) ==
    JaccardStep(st, candidate, cand_neighbors, Jaccard(absorbed_neighbors, cand_neighbors))

\* the loop of _disambiguate_by_graph with st = [best_overlap, best_candidate, second_best]
RECURSIVE DisambiguateLoop(_, _, _, _, _)
DisambiguateLoop(store, absorbed_neighbors, candidates, st, i) ==
    IF i > Len(candidates) THEN st
    ELSE DisambiguateLoop(store, absorbed_neighbors, candidates,
             NeighborStep(st, candidates[i], absorbed_neighbors,
                          _get_neighbors(store, candidates[i][1])),
             i + 1)

\* variant: a best overlap of exactly 1.5 times the second best is accepted
DisambiguateResultInclusive(st) ==
    IF /\ st.best_candidate # <<>>
       /\ 20 * st.best_overlap[1] >= st.best_overlap[2]
       /\ 2 * st.best_overlap[1] * st.second_best[2]
              >= 3 * st.second_best[1] * st.best_overlap[2]
    THEN st.best_candidate
    ELSE <<>>

\* best_overlap >= 0.05 and best_overlap > second_best * 1.5
DisambiguateResult(st) ==
    IF /\ st.best_candidate # <<>>
       /\ 20 * st.best_overlap[1] >= st.best_overlap[2]
       /\ 2 * st.best_overlap[1] * st.second_best[2]
              > 3 * st.second_best[1] * st.best_overlap[2]
    THEN st.best_candidate
    ELSE <<>>

DisambiguateFrom(store, absorbed_neighbors, candidates) ==
    IF absorbed_neighbors = {} THEN <<>>
    ELSE DisambiguateResult(
             DisambiguateLoop(store, absorbed_neighbors, candidates,
                 [best_overlap |-> <<0, 1>>, best_candidate |-> <<>>,
                  second_best |-> <<0, 1>>], 1))

\* the chosen candidate as a list of zero or one element
_disambiguate_by_graph(store, absorbed_cid, candidates) ==
    DisambiguateFrom(store, _get_neighbors(store, absorbed_cid), candidates)

CleanWords(name) == split(clean_name_for_matching(name))

Absorb(acc, survivor_id, cid, reason, match_key) ==
    [candidates |-> Append(acc.candidates, <<survivor_id, cid, reason, match_key>>),
     seen_absorbed |-> acc.seen_absorbed \cup {cid}]

\* "if best:" after _disambiguate_by_graph
Pass2Disambiguated(acc, cid, match_key, best) ==
    IF best # <<>>
    THEN Absorb(acc, best[1][1], cid, "lastname_only_graph_disambiguated", match_key)
    ELSE acc

\* the branches on len(matches)
Pass2Matched(store, acc, cid, match_key, matches) ==
    IF Len(matches) = 0 THEN acc
    ELSE IF Len(matches) = 1
    THEN Absorb(acc, matches[1][1], cid, "lastname_only_unambiguous", match_key)
    ELSE Pass2Disambiguated(acc, cid, match_key,
                            _disambiguate_by_graph(store, cid, matches))

\* lastname_to_full[last_name] without cid and the ids already absorbed
FullNameMatches(acc, lastname_to_full, cid, last_name) ==
    SelectSeq(lastname_to_full, LAMBDA f :
        f[1] = last_name /\ f[2] # cid /\ f[2] \notin acc.seen_absorbed)

IdAndName(full_name_matches) ==
    [j \in 1..Len(full_name_matches) |->
        <<full_name_matches[j][2], full_name_matches[j][3]>>]

MatchKey(last_name, cname) == last_name \o " (from \"" \o cname \o "\")"

Pass2LastName(store, acc, cid, cname, last_name, lastname_to_full) ==
    Pass2Matched(store, acc, cid, MatchKey(last_name, cname),
                 IdAndName(FullNameMatches(acc, lastname_to_full, cid, last_name)))

\* one person of Pass 2
Pass2Step(store, acc, cid, cname, clean_words, lastname_to_full) ==
    IF cid \in acc.seen_absorbed \/ Len(clean_words) # 1 THEN acc
    ELSE Pass2LastName(store, acc, cid, cname, clean_words[1], lastname_to_full)

\* "for cid, entity in persons.items()" of Pass 2
RECURSIVE Pass2(_, _, _, _, _)
Pass2(store, acc, persons, lastname_to_full, i) ==
    IF i > Len(persons) THEN acc
    ELSE Pass2(store,
               Pass2Step(store, acc, persons[i].canonical_id, persons[i].canonical_name,
                         CleanWords(persons[i].canonical_name), lastname_to_full),
               persons, lastname_to_full, i + 1)

LastWord(words) == words[Len(words)]

\* lastname_to_full as a list of <<last name, cid, cname>>
LastNameIndex(full) ==
    [i \in 1..Len(full) |->
        <<LastWord(CleanWords(full[i].canonical_name)),
          full[i].canonical_id, full[i].canonical_name>>]

\* the persons not absorbed in Pass 1 whose cleaned name has two words or more
FullNamed(persons, acc1) ==
    SelectSeq(persons, LAMBDA e :
        e.canonical_id \notin acc1.seen_absorbed
        /\ Len(CleanWords(e.canonical_name)) >= 2)

Pass2From(store, persons, acc1) ==
    Pass2(store, acc1, persons, LastNameIndex(FullNamed(persons, acc1)), 1)

PostingKeys(postings) == Dedupe([i \in 1..Len(postings) |-> postings[i][1]])

Pass1From(store, persons, postings) ==
    Pass2From(store, persons,
        Pass1(store, [candidates |-> <<>>, seen_absorbed |-> {}],
              postings, PostingKeys(postings), 1))

MergeCandidatesOf(store, persons) ==
    Pass1From(store, persons,
              Flatten([i \in 1..Len(persons) |-> CleanPostings(persons[i])]))

\* the list of (survivor_id, absorbed_id, reason, match_key)
find_merge_candidates(store) == MergeCandidatesOf(store, Persons(store)).candidates

(***************************************************************************)
(* src/utils/common.py: inserts and id assignment                          *)
(***************************************************************************)
\* prefix_map.get(entity_type, "ENT")
IdPrefix(entity_type) ==
    CASE entity_type = "person" -> "PER"
      [] entity_type \in {"organization", "shell_company"} -> "ORG"
      [] entity_type = "location" -> "LOC"
      [] entity_type = "document" -> "DOC"
      [] entity_type = "aircraft" -> "AIR"
      [] entity_type = "property" -> "PROP"
      [] OTHER -> "ENT"

\* int(digits)
RECURSIVE IntOf(_)
IntOf(digits) ==
    IF digits = "" THEN 0
    ELSE 10 * IntOf(SubSeq(digits, 1, Len(digits) - 1))
         + (PosIn(Ch(digits, Len(digits)), Digits) - 1)

\* f"{n:05d}"
RECURSIVE ZeroPad(_, _)
ZeroPad(text, width) == IF Len(text) >= width THEN text ELSE ZeroPad("0" \o text, width)

\* the greatest of a non-empty set of strings, as ORDER BY ... DESC LIMIT 1
GreatestStr(strings) == CHOOSE x \in strings : \A y \in strings : ~StrLess(x, y)

\* int(row[0].split("-")[1])
IdNumber(canonical_id) == IntOf(splitOn(canonical_id, "-")[2])

NextIdAfter(prefix, existing) ==
    IF existing = {} THEN prefix \o "-00001"
    ELSE prefix \o "-" \o ZeroPad(ToString(IdNumber(GreatestStr(existing)) + 1), 5)

NextIdFor(store, prefix) ==
    NextIdAfter(prefix, {cid \in EntityIds(store) : startswith(cid, prefix \o "-")})

get_next_id(store, entity_type) == NextIdFor(store, IdPrefix(entity_type))

\* a row of canonical_entities; malformed names the JSON columns of the row
\* ("aliases", "metadata") whose text json.loads rejects
Entity(cid, type, name, aliases, metadata) ==
    [canonical_id |-> cid, entity_type |-> type, canonical_name |-> name,
     aliases |-> aliases, metadata |-> metadata, last_updated |-> "ingest",
     malformed |-> {}]

\* the id an AUTOINCREMENT key gives the next row of a table that has lost
\* no row
NextRowId(ids) == IF ids = {} THEN 1 ELSE (CHOOSE m \in ids : \A k \in ids : k <= m) + 1

insert_canonical_entity(store, canonical_id, entity_type, canonical_name, aliases, metadata) ==
    [store EXCEPT !.canonical_entities =
        Append(@, Entity(canonical_id, entity_type, canonical_name, aliases, metadata))]

insert_resolution_log(store, canonical_id) ==
    [store EXCEPT !.entity_resolution_log =
        @ \cup {[resolution_id |-> NextRowId({l.resolution_id : l \in @}),
                 canonical_id |-> canonical_id]}]

\* cursor.lastrowid of insert_relationship
NextRelationshipId(store) == NextRowId({r.relationship_id : r \in store.relationships})

insert_relationship(store, source_entity_id, target_entity_id, relationship_type, weight, source_documents) ==
    [store EXCEPT !.relationships =
        @ \cup {[relationship_id |-> NextRelationshipId(store),
                 source_entity_id |-> source_entity_id,
                 target_entity_id |-> target_entity_id,
                 relationship_type |-> relationship_type,
                 weight |-> weight,
                 source_documents |-> source_documents]}]

insert_relationship_source(store, relationship_id, source_system) ==
    [store EXCEPT !.relationship_sources =
        @ \cup {[id |-> NextRowId({p.id : p \in @}),
                 relationship_id |-> relationship_id,
                 source_system |-> source_system]}]

\* sorted(existing | keys)[:cap]; the cap of 200 keys is the one of CapDocs
append_relationship_documents(store, relationship_id, doc_keys) ==
    [store EXCEPT !.relationships =
        {IF r.relationship_id = relationship_id
         THEN [r EXCEPT !.source_documents = CapDocs(@ \cup doc_keys)]
         ELSE r : r \in @}]

EdgesBetween(store, x, y, type) ==
    {r \in store.relationships :
        {r.source_entity_id, r.target_entity_id} = {x, y} /\ r.relationship_type = type}

\* the relationship ids find_existing_relationship can return: a row of the
\* type between the two entities in either direction (fetchone, no ORDER BY)
find_existing_relationship(store, source_id, target_id, rel_type) ==
    {r.relationship_id : r \in EdgesBetween(store, source_id, target_id, rel_type)}

(***************************************************************************)
(* Stores the cleanup starts from                                          *)
(***************************************************************************)
MaxWeight == 2

MaxRuns == 2

MaxCalls == 2

\* the row with the text of the given JSON columns damaged
Damaged(e, columns) == [e EXCEPT !.malformed = columns]

FlaggedMeta ==
    [bools |-> [k \in {"exclude_from_analysis"} |-> TRUE],
     strings |-> [k \in {"exclude_reason"} |-> "generic_word:president"]]

\* registries left by ingestion, in rowid order; bulk is the number of
\* further edges, each of its own type, between the first and the third row
Registries ==
    {[rows |-> <<Entity("PER-00001", "person", "Larry Visoski", <<"Lawrence Visoski">>, EmptyMeta),
                 Entity("PER-00002", "person", "MR. LARRY VISOSKI",
                        <<"larry visoski", "Pilot Larry">>, EmptyMeta),
                 Entity("PER-00003", "person", "Ghislaine Maxwell", <<>>, EmptyMeta),
                 Entity("PER-00004", "person", "MARY", <<>>, EmptyMeta)>>,
      bulk |-> 0],
     [rows |-> <<Entity("PER-00001", "person", "Brad Cassell", <<>>, EmptyMeta),
                 Entity("PER-00002", "person", "Mr. Cassell", <<"Cassell">>, EmptyMeta),
                 Entity("PER-00003", "person", "Ghislaine Maxwell", <<>>, EmptyMeta)>>,
      bulk |-> 0],
     [rows |-> <<Entity("PER-00001", "person", "President", <<>>, EmptyMeta),
                 Entity("PER-00002", "person", "MARY", <<>>, EmptyMeta),
                 Entity("ORG-00001", "organization", "Harvard", <<>>, EmptyMeta)>>,
      bulk |-> 0],
     [rows |-> <<Entity("PER-00001", "person", "President", <<>>, EmptyMeta),
                 Entity("PER-00002", "person", "Mary", <<>>, EmptyMeta),
                 Entity("ORG-00001", "organization", "Harvard", <<>>, EmptyMeta)>>,
      bulk |-> PROMINENCE_THRESHOLD],
     [rows |-> <<Entity("PER-00001", "person", "President", <<>>, FlaggedMeta),
                 Entity("PER-00002", "person", "Roger ?", <<>>, EmptyMeta),
                 Entity("PER-00003", "person", "JEAN-LUC BRUNEL", <<>>, EmptyMeta),
                 Entity("PER-00004", "person", "Mr. Larry Visoski",
                        <<"Larry Visoski">>, EmptyMeta)>>,
      bulk |-> 0],
     [rows |-> <<Damaged(Entity("PER-00001", "person", "Ghislaine Maxwell", <<>>, EmptyMeta),
                         {"aliases"}),
                 Entity("PER-00002", "person", "MARY", <<>>, EmptyMeta),
                 Damaged(Entity("ORG-00001", "organization", "Harvard", <<>>, EmptyMeta),
                         {"metadata"})>>,
      bulk |-> 0],
     [rows |-> <<Entity("PER-00001", "person", "Alan Dershowitz", <<>>, EmptyMeta),
                 Entity("PER-00002", "person", "Prof. Alan Dershowitz", <<>>, FlaggedMeta),
                 Entity("PER-00003", "person", "Ghislaine Maxwell", <<>>, EmptyMeta)>>,
      bulk |-> 0],
     [rows |-> <<Entity("PER-00001", "person", "John Smith", <<>>, EmptyMeta),
                 Entity("PER-00002", "person", "JOHN SMITH", <<"Johnny Smith">>, EmptyMeta),
                 Entity("PER-00003", "person", "Johnny Smith", <<>>, EmptyMeta)>>,
      bulk |-> 0]}

\* registry for direct calls of the merge functions
CallRegistry ==
    [rows |-> <<Entity("PER-00001", "person", "Alan Dershowitz", <<"Dershowitz">>, EmptyMeta),
                Entity("PER-00002", "person", "Alan M. Dershowitz",
                       <<"alan dershowitz", "Prof. Dershowitz">>, FlaggedMeta),
                Entity("PER-00003", "person", "Ghislaine Maxwell", <<>>, EmptyMeta)>>,
     bulk |-> 0]

\* candidate edges between the rows of a registry: source row, target row, type
EdgeSlots ==
    <<[src |-> 1, tgt |-> 3, type |-> "associated_with"],
      [src |-> 2, tgt |-> 3, type |-> "associated_with"],
      [src |-> 3, tgt |-> 2, type |-> "associated_with"],
      [src |-> 1, tgt |-> 2, type |-> "associated_with"],
      [src |-> 2, tgt |-> 2, type |-> "associated_with"],
      [src |-> 2, tgt |-> 3, type |-> "traveled_with"],
      [src |-> 3, tgt |-> 2, type |-> "associated_with"],
      [src |-> 3, tgt |-> 1, type |-> "associated_with"]>>

DocsOfSlot(i) == {"EFTA0000" \o ToString(i)} \cup (IF i \in {2, 3} THEN {"DOJ-OGR-1"} ELSE {})

MakeStore(reg, present, w) ==
    LET ids == [i \in 1..Len(reg.rows) |-> reg.rows[i].canonical_id]
        slotRels == {[relationship_id |-> i,
                      source_entity_id |-> ids[EdgeSlots[i].src],
                      target_entity_id |-> ids[EdgeSlots[i].tgt],
                      relationship_type |-> EdgeSlots[i].type,
                      weight |-> IF i \in DOMAIN w THEN w[i] ELSE 1,
                      source_documents |-> DocsOfSlot(i)] : i \in present}
        bulkRels == {[relationship_id |-> Len(EdgeSlots) + i,
                      source_entity_id |-> ids[1],
                      target_entity_id |-> ids[3],
                      relationship_type |-> "bulk_" \o ToString(i),
                      weight |-> 1,
                      source_documents |-> {}] : i \in 1..reg.bulk}
        rels == slotRels \cup bulkRels
    IN  [canonical_entities |-> reg.rows,
         relationships |-> rels,
         relationship_sources |->
             {[id |-> 2 * r.relationship_id, relationship_id |-> r.relationship_id,
               source_system |-> "rhowardstone"] : r \in rels}
             \cup {[id |-> 2 * r.relationship_id + 1,
                    relationship_id |-> r.relationship_id,
                    source_system |-> "doc-explorer"] :
                       r \in {q \in slotRels : q.relationship_id \in {2, 4}}},
         entity_resolution_log |->
             {[resolution_id |-> i, canonical_id |-> ids[i]] : i \in 1..Len(ids)},
         entity_merges |-> <<>>,
         document_ids |-> {}]

\* slots: the edges that may be present; weighted: those whose weight varies
InitialStores(regs, slots, weighted) ==
    UNION {{MakeStore(reg, present, w) :
                w \in [present \cap weighted -> 1..MaxWeight]} :
              reg \in regs, present \in SUBSET slots}

(***************************************************************************)
(* main(db_path, dry_run) as a state machine                               *)
(*   db    the store as the connection sees it (uncommitted changes in)    *)
(*   disk  the committed store, what a new connection would read           *)
(*   completed  the run before this one was not a dry run and reached    *)
(*              its end                                                    *)
(***************************************************************************)
VARIABLES db, disk, dry_run, pc, idx, deletable, flaggable, candidates, cleanups,
          reported, executed, previewed, completed, run, store0, phase0, last,
          resolver, name_to_cid, pair_action_count, pairkey_to_relid, issued, source

vars == <<db, disk, dry_run, pc, idx, deletable, flaggable, candidates, cleanups,
          reported, executed, previewed, completed, run, store0, phase0, last,
          resolver, name_to_cid, pair_action_count, pairkey_to_relid, issued,
          source>>

\* the state of an ingestion step: its EntityResolver, the name-to-id
\* mapping it returns, the per-pair locals of the relationship loop, and the
\* ids get_next_id has returned; source is the raw files an ingestion reads
ingest_vars == <<resolver, name_to_cid, pair_action_count, pairkey_to_relid, issued, source>>

\* no raw file
NoSource == [kg_entities |-> <<>>, kg_relationships |-> <<>>,
             entity_aliases |-> <<>>, rdf_triples |-> <<>>]

EmptyDict == [k \in {} |-> None]

NoIngest ==
    /\ resolver = EmptyResolver(90)
    /\ name_to_cid = EmptyDict
    /\ pair_action_count = EmptyDict
    /\ pairkey_to_relid = EmptyDict
    /\ issued = {}
    /\ source = NoSource

NoCall == [op |-> "none"]

InitStore(store) ==
    /\ db = store
    /\ disk = store
    /\ idx = 1
    /\ deletable = <<>>
    /\ flaggable = <<>>
    /\ candidates = <<>>
    /\ cleanups = <<>>
    /\ reported = {}
    /\ executed = {}
    /\ previewed = FALSE
    /\ run = 1
    /\ completed = FALSE
    /\ store0 = store
    /\ phase0 = store
    /\ last = NoCall

InitRun(store) == NoIngest /\ InitStore(store)

Init ==
    /\ \E store \in InitialStores(Registries, {1, 2, 3, 4, 5, 8}, {2}) : InitRun(store)
    /\ dry_run \in BOOLEAN
    /\ pc = "phase1"

\* variant: a connection in autocommit mode, every statement durable at once
Autocommit(committed, working) == working

\* sqlite3.connect() with the default isolation level: statements run in an
\* implicit transaction, so what survives a stop of the process is the
\* store as of the last conn.commit(), whatever the connection had written
Durable(committed, working) == committed

\* the decisions of a run: printed with the [DRY RUN] prefix, or executed
Record(decisions) ==
    /\ reported' = IF dry_run THEN reported \cup decisions ELSE reported
    /\ executed' = IF dry_run THEN executed ELSE executed \cup decisions

\* load_canonical_registry parses the aliases and the metadata of every row
\* with json.loads, outside any try
RegistryLoads(store) ==
    \A i \in 1..Len(store.canonical_entities) : store.canonical_entities[i].malformed = {}

\* Phase 1: deletable, flaggable = find_noise_entities(conn)
FindNoise ==
    /\ UNCHANGED ingest_vars
    /\ pc = "phase1"
    /\ RegistryLoads(db)
    /\ \E found \in {find_noise_entities(db)} :
           /\ deletable' = found.deletable
           /\ flaggable' = found.flaggable
    /\ pc' = "delete_loop"
    /\ idx' = 1
    /\ phase0' = db
    /\ UNCHANGED <<db, disk, dry_run, candidates, cleanups, reported, executed, previewed, completed, run,
                   store0, last>>

\* for cid, name, reason in deletable: delete_noise_entity(...)
DeleteNoise ==
    /\ UNCHANGED ingest_vars
    /\ pc = "delete_loop"
    /\ idx <= Len(deletable)
    /\ db' = delete_noise_entity(db, deletable[idx][1], deletable[idx][2],
                                 deletable[idx][3], dry_run)
    /\ Record({<<"delete", deletable[idx][1]>>})
    /\ idx' = idx + 1
    /\ last' = [op |-> "delete", pre |-> db, canonical_id |-> deletable[idx][1]]
    /\ UNCHANGED <<disk, dry_run, pc, deletable, flaggable, candidates, cleanups, previewed, completed,
                   run, store0, phase0>>

DeleteLoopDone ==
    /\ UNCHANGED ingest_vars
    /\ pc = "delete_loop"
    /\ idx > Len(deletable)
    /\ pc' = "flag_loop"
    /\ idx' = 1
    /\ UNCHANGED <<db, disk, dry_run, deletable, flaggable, candidates, cleanups,
                   reported, executed, previewed, completed, run, store0, phase0, last>>

\* for cid, name, reason in flaggable: flag_noise_entity(...)
FlagNoise ==
    /\ UNCHANGED ingest_vars
    /\ pc = "flag_loop"
    /\ idx <= Len(flaggable)
    /\ db' = flag_noise_entity(db, flaggable[idx][1], flaggable[idx][2],
                               flaggable[idx][3], dry_run)
    /\ Record({<<"flag", flaggable[idx][1]>>})
    /\ idx' = idx + 1
    /\ last' = [op |-> "flag", pre |-> db, canonical_id |-> flaggable[idx][1]]
    /\ UNCHANGED <<disk, dry_run, pc, deletable, flaggable, candidates, cleanups, previewed, completed,
                   run, store0, phase0>>

\* if not dry_run: conn.commit()
Commit(from, to) ==
    /\ pc = from
    /\ disk' = IF dry_run THEN disk ELSE db
    /\ phase0' = db
    /\ pc' = to
    /\ idx' = 1

CommitPhase1 ==
    /\ UNCHANGED ingest_vars
    /\ idx > Len(flaggable)
    /\ Commit("flag_loop", "phase2")
    /\ UNCHANGED <<db, dry_run, deletable, flaggable, candidates, cleanups,
                   reported, executed, previewed, completed, run, store0, last>>

\* Phase 2: candidates = find_merge_candidates(conn)
FindMerges ==
    /\ UNCHANGED ingest_vars
    /\ pc = "phase2"
    /\ RegistryLoads(db)
    /\ candidates' = find_merge_candidates(db)
    /\ pc' = "merge_loop"
    /\ idx' = 1
    /\ UNCHANGED <<db, disk, dry_run, deletable, flaggable, cleanups, reported, executed,
                   previewed, completed, run, store0, phase0, last>>

\* one iteration of "for survivor_id, absorbed_id, reason, match_key in
\* candidates": the existence check, then merge_entity_pair
MergePair ==
    /\ UNCHANGED ingest_vars
    /\ pc = "merge_loop"
    /\ idx <= Len(candidates)
    /\ LET c == candidates[idx]
       IN  IF ~HasEntity(db, c[1]) \/ ~HasEntity(db, c[2])
           THEN UNCHANGED <<db, reported, executed, last>>
           ELSE \E o \in merge_entity_pair(db, c[1], c[2], c[3], c[4], dry_run) :
                    /\ db' = o.store
                    /\ Record({<<"merge", c[1], c[2]>>})
                    /\ last' = [op |-> "merge", pre |-> db, survivor_id |-> c[1],
                                absorbed_id |-> c[2], acted |-> o.acted /\ ~dry_run,
                                stats |-> o.stats]
    /\ idx' = idx + 1
    /\ UNCHANGED <<disk, dry_run, pc, deletable, flaggable, candidates, cleanups, previewed, completed,
                   run, store0, phase0>>

CommitPhase2 ==
    /\ UNCHANGED ingest_vars
    /\ idx > Len(candidates)
    /\ Commit("merge_loop", "phase3")
    /\ UNCHANGED <<db, dry_run, deletable, flaggable, candidates, cleanups,
                   reported, executed, previewed, completed, run, store0, last>>

\* Phase 3: cleanups = find_name_cleanups(conn)
FindCleanups ==
    /\ UNCHANGED ingest_vars
    /\ pc = "phase3"
    /\ RegistryLoads(db)
    /\ cleanups' = find_name_cleanups(db)
    /\ pc' = "rename_loop"
    /\ idx' = 1
    /\ UNCHANGED <<db, disk, dry_run, deletable, flaggable, candidates, reported, executed,
                   previewed, completed, run, store0, phase0, last>>

\* one iteration of "for cid, old_name, new_name in cleanups"
Rename ==
    /\ UNCHANGED ingest_vars
    /\ pc = "rename_loop"
    /\ idx <= Len(cleanups)
    /\ db' = IF dry_run THEN db
             ELSE RenameEntity(db, cleanups[idx][1], cleanups[idx][2], cleanups[idx][3])
    /\ Record({<<"rename", cleanups[idx][1], cleanups[idx][3]>>})
    /\ idx' = idx + 1
    /\ last' = [op |-> "rename", pre |-> db, canonical_id |-> cleanups[idx][1]]
    /\ UNCHANGED <<disk, dry_run, pc, deletable, flaggable, candidates, cleanups, previewed, completed,
                   run, store0, phase0>>

CommitPhase3 ==
    /\ UNCHANGED ingest_vars
    /\ idx > Len(cleanups)
    /\ Commit("rename_loop", "done")
    /\ UNCHANGED <<db, dry_run, deletable, flaggable, candidates, cleanups,
                   reported, executed, previewed, completed, run, store0, last>>

\* the command is run again on the same store (a preview, then the real
\* run; --cleanup-only after a completed run; or again after a stop)
RunAgain ==
    /\ UNCHANGED ingest_vars
    /\ pc \in {"done", "crashed", "failed"}
    /\ run < MaxRuns
    /\ run' = run + 1
    /\ dry_run' \in BOOLEAN
    /\ pc' = "phase1"
    /\ idx' = 1
    /\ deletable' = <<>>
    /\ flaggable' = <<>>
    /\ candidates' = <<>>
    /\ cleanups' = <<>>
    /\ executed' = {}
    /\ reported' = IF dry_run /\ pc = "done" THEN reported ELSE {}
    /\ previewed' = (dry_run /\ pc = "done")
    /\ completed' = (~dry_run /\ pc = "done")
    /\ store0' = db
    /\ phase0' = db
    /\ last' = NoCall
    /\ UNCHANGED <<db, disk>>

\* the stores the connection passes through inside one merge_entity_pair
MergeInFlight(store, survivor_id, absorbed_id) ==
    LET survivor == EntityRow(store, survivor_id)
        absorbed == EntityRow(store, absorbed_id)
        st1 == UpdateEntity(store, survivor_id,
                   LAMBDA e : [e EXCEPT !.aliases = MergeAliases(survivor, absorbed),
                                        !.last_updated = "cleanup"])
        st2 == RepointRelationships(st1, survivor_id, absorbed_id)
        st3 == RepointResolutionLog(st2, survivor_id, absorbed_id)
    IN  {st1, st2, st3}
        \cup UNION {{c.store,
                     RemoveSelfReferences(c.store, survivor_id),
                     DeleteEntity(RemoveSelfReferences(c.store, survivor_id), absorbed_id)} :
                       c \in _consolidate_duplicate_relationships(st3, survivor_id)}

\* the stores the connection passes through inside one delete_noise_entity
DeleteInFlight(store, canonical_id) ==
    LET rel_ids == {r.relationship_id : r \in TouchingRels(store, canonical_id)}
        st1 == [store EXCEPT
                   !.relationship_sources = {p \in @ : p.relationship_id \notin rel_ids},
                   !.relationships = {r \in @ : r.relationship_id \notin rel_ids}]
        st2 == [st1 EXCEPT
                   !.entity_resolution_log = {l \in @ : l.canonical_id # canonical_id}]
    IN  {st1, st2, DeleteEntity(st2, canonical_id)}

\* the stores the connection can hold when the process stops now
InFlight ==
    {db} \cup
    (IF dry_run THEN {}
     ELSE IF pc = "delete_loop" /\ idx <= Len(deletable)
     THEN DeleteInFlight(db, deletable[idx][1])
     ELSE IF /\ pc = "merge_loop" /\ idx <= Len(candidates)
             /\ HasEntity(db, candidates[idx][1]) /\ HasEntity(db, candidates[idx][2])
     THEN MergeInFlight(db, candidates[idx][1], candidates[idx][2])
     ELSE {})

\* the process stops (killed, power loss) anywhere inside the run; the
\* open transaction is lost and the locals of main with it
Crash ==
    /\ UNCHANGED ingest_vars
    /\ pc \in {"phase1", "delete_loop", "flag_loop", "phase2", "merge_loop",
               "phase3", "rename_loop"}
    /\ \E w \in InFlight : disk' = Durable(disk, w)
    /\ db' = disk'
    /\ pc' = "crashed"
    /\ idx' = 1
    /\ deletable' = <<>>
    /\ flaggable' = <<>>
    /\ candidates' = <<>>
    /\ cleanups' = <<>>
    /\ executed' = {}
    /\ last' = NoCall
    /\ UNCHANGED <<dry_run, reported, previewed, completed, run, store0, phase0>>

\* json.loads raises inside the finder of a phase: the exception leaves
\* main, nothing of the phase is committed and the process ends
LoadFails ==
    /\ UNCHANGED ingest_vars
    /\ pc \in {"phase1", "phase2", "phase3"}
    /\ ~RegistryLoads(db)
    /\ db' = disk
    /\ pc' = "failed"
    /\ idx' = 1
    /\ deletable' = <<>>
    /\ flaggable' = <<>>
    /\ candidates' = <<>>
    /\ cleanups' = <<>>
    /\ executed' = {}
    /\ last' = NoCall
    /\ UNCHANGED <<disk, dry_run, reported, previewed, completed, run, store0, phase0>>

Next ==
    \/ FindNoise \/ DeleteNoise \/ DeleteLoopDone \/ FlagNoise \/ CommitPhase1
    \/ FindMerges \/ MergePair \/ CommitPhase2
    \/ FindCleanups \/ Rename \/ CommitPhase3
    \/ RunAgain \/ Crash \/ LoadFails

Spec == Init /\ [][Next]_vars

(***************************************************************************)
(* Direct calls of merge_entity_pair and                                   *)
(* _consolidate_duplicate_relationships on a store                         *)
(***************************************************************************)
InitCalls ==
    /\ \E store \in InitialStores({CallRegistry}, 1..7, {2, 3}) : InitRun(store)
    /\ dry_run = FALSE
    /\ pc = "call"

CallMerge(survivor_id, absorbed_id) ==
    /\ UNCHANGED ingest_vars
    /\ pc = "call"
    /\ idx <= MaxCalls
    /\ survivor_id # absorbed_id
    /\ \E o \in merge_entity_pair(db, survivor_id, absorbed_id, "manual", "manual", dry_run) :
           /\ db' = o.store
           /\ last' = [op |-> "merge", pre |-> db, survivor_id |-> survivor_id,
                       absorbed_id |-> absorbed_id, acted |-> o.acted /\ ~dry_run,
                       stats |-> o.stats]
    /\ idx' = idx + 1
    /\ UNCHANGED <<disk, dry_run, pc, deletable, flaggable, candidates, cleanups,
                   reported, executed, previewed, completed, run, store0, phase0>>

CallConsolidate(entity_id) ==
    /\ UNCHANGED ingest_vars
    /\ pc = "call"
    /\ idx <= MaxCalls
    /\ \E o \in _consolidate_duplicate_relationships(db, entity_id) :
           /\ db' = o.store
           /\ last' = [op |-> "consolidate", pre |-> db, entity_id |-> entity_id,
                       consolidated |-> o.consolidated,
                       repeated |-> last.op = "consolidate" /\ last.entity_id = entity_id,
                       first |-> IF last.op = "consolidate" /\ last.entity_id = entity_id
                                 THEN last.consolidated ELSE 0]
    /\ idx' = idx + 1
    /\ UNCHANGED <<disk, dry_run, pc, deletable, flaggable, candidates, cleanups,
                   reported, executed, previewed, completed, run, store0, phase0>>

\* a caller asks for the next id of a type; issued collects the ids handed out
CallGetNextId(entity_type) ==
    /\ pc = "call"
    /\ idx <= MaxCalls
    /\ last' = [op |-> "get_next_id", pre |-> db, entity_type |-> entity_type,
                issued |-> issued, result |-> get_next_id(db, entity_type)]
    /\ issued' = issued \cup {get_next_id(db, entity_type)}
    /\ idx' = idx + 1
    /\ UNCHANGED <<db, disk, dry_run, pc, deletable, flaggable, candidates, cleanups,
                   reported, executed, previewed, completed, run, store0, phase0>>
    /\ UNCHANGED <<resolver, name_to_cid, pair_action_count, pairkey_to_relid, source>>

CallIds == {"PER-00001", "PER-00002", "PER-00003", "PER-00004"}

CallTypes == {"person", "organization"}

NextCalls ==
    \/ \E s, a \in CallIds : CallMerge(s, a)
    \/ \E e \in CallIds : CallConsolidate(e)
    \/ \E t \in CallTypes : CallGetNextId(t)

SpecCalls == InitCalls /\ [][NextCalls]_vars

(***************************************************************************)
(* Calls of EntityResolver.resolve on a resolver built from a registry     *)
(***************************************************************************)
ResolveRegistries ==
    {[rows |-> <<Entity("PER-00001", "person", "John Kerry", <<"Senator Kerry">>, EmptyMeta),
                 Entity("PER-00002", "person", "Ghislaine Maxwell", <<>>, EmptyMeta),
                 Entity("PER-00003", "person", "Leon Black", <<>>, EmptyMeta),
                 Entity("PER-00004", "person", "Unknown Person", <<>>, EmptyMeta)>>,
      bulk |-> 0],
     [rows |-> <<Entity("PER-00001", "person", "Detective 1 Joe Recarey", <<>>, EmptyMeta),
                 Entity("PER-00002", "person", "Detective 1", <<>>, EmptyMeta),
                 Entity("PER-00003", "person", "Jane Doe #1", <<>>, EmptyMeta),
                 Entity("PER-00004", "person", "John Kerry", <<>>, EmptyMeta)>>,
      bulk |-> 0],
     [rows |-> <<>>, bulk |-> 0]}

\* the cutoff the ingestion steps pass, and a laxer one
Thresholds == {80, 90}

ResolveNames ==
    {"", "   ", "redacted", "Unknown Person", "Jane Doe #2",
     "John Kerry", "JOHN KERRY", "Kerry, John", "Mr. Kerry", "John Perry", "Jon Kerry",
     "Black Leon", "Ghislaine Maxwell", "Ghislaine Marwell", "Gislan Maxwel", "Zed Quux",
     "Alexander Acosta", "Detective 2", "Detective 2 Joe Recarey", "Detective 1 Joe Recarey",
     "Detective 1"}

\* the registry as EntityResolver.__init__ walks it
RegistryRows(entities) ==
    [i \in 1..Len(entities) |->
        <<entities[i].canonical_id, entities[i].canonical_name, entities[i].aliases,
          entities[i].metadata>>]

InitResolve ==
    /\ \E reg \in ResolveRegistries, t \in Thresholds :
           /\ InitStore(MakeStore(reg, {}, <<>>))
           /\ resolver = EntityResolver(RegistryRows(reg.rows), t)
    /\ name_to_cid = EmptyDict
    /\ pair_action_count = EmptyDict
    /\ pairkey_to_relid = EmptyDict
    /\ issued = {}
    /\ source = NoSource
    /\ dry_run = FALSE
    /\ pc = "resolve"

\* cid, method, confidence = resolver.resolve(source_name)
Resolve(source_name) ==
    /\ pc = "resolve"
    /\ last' = [op |-> "resolve", source_name |-> source_name,
                result |-> resolve(resolver, source_name)]
    /\ UNCHANGED <<db, disk, dry_run, pc, idx, deletable, flaggable, candidates, cleanups,
                   reported, executed, previewed, completed, run, store0, phase0>>
    /\ UNCHANGED ingest_vars

NextResolve == \E source_name \in ResolveNames : Resolve(source_name)

SpecResolve == InitResolve /\ [][NextResolve]_vars

(***************************************************************************)
(* Calls of normalize_name: on a name, then on what it returned            *)
(***************************************************************************)
MaxApplications == 2

NormalizeBases ==
    {"John Smith", "Smith, John", "A, B, C", "John (Jack) Smith", "Doe, Jane (Pilot)",
     "  Alan   Dershowitz "}

NormalizeSuffixParts == {"", " Jr.", ", Jr.", " Esq.", ", III", " M.D."}

\* names as sources write them: a base and up to two stacked suffixes
NormalizeInputs ==
    {b \o s1 \o s2 : b \in NormalizeBases, s1 \in NormalizeSuffixParts,
                     s2 \in {"", " Jr.", " Esq."}}

InitNormalize ==
    /\ \E reg \in {[rows |-> <<>>, bulk |-> 0]} : InitRun(MakeStore(reg, {}, <<>>))
    /\ dry_run = FALSE
    /\ pc = "normalize"

\* normalized = normalize_name(name), first on an input, then on its result
Normalize(name) ==
    /\ pc = "normalize"
    /\ idx <= MaxApplications
    /\ IF last.op = "normalize" THEN name = last.normalized ELSE name \in NormalizeInputs
    /\ last' = [op |-> "normalize", name |-> name, normalized |-> normalize_name(name)]
    /\ idx' = idx + 1
    /\ UNCHANGED <<db, disk, dry_run, pc, deletable, flaggable, candidates, cleanups,
                   reported, executed, previewed, completed, run, store0, phase0>>
    /\ UNCHANGED ingest_vars

\* what the previous call returned
Returned == IF last.op = "normalize" THEN {last.normalized} ELSE {}

NextNormalize == \E name \in NormalizeInputs \cup Returned : Normalize(name)

SpecNormalize == InitNormalize /\ [][NextNormalize]_vars

(***************************************************************************)
(* Ingestion in the order of run_pipeline.py:                              *)
(* src/ingest/ingest_rhowardstone.py (knowledge graph entities, then       *)
(* relationships) and src/ingest/ingest_doc_explorer.py (entity aliases,   *)
(* then RDF triples); the epstein-docs script between the two is given no  *)
(* data. source holds the raw files; idx is the position of                *)
(* the loop of the running step; name_to_cid is the mapping the entity     *)
(* step of the running script returns (kg_id_to_cid, then de_name_to_cid). *)
(***************************************************************************)
\* d.get(key)
DictGet(d, key) == IF key \in DOMAIN d THEN d[key] ELSE None

\* metadata[key] = value for a string value
MetaSetString(meta, key, value) == [meta EXCEPT !.strings = DictSet(@, key, value)]

\* a token EFTA_RE matches: EFTA and six or more digits
IsEftaToken(s) ==
    /\ Len(s) >= 10
    /\ upper(SubSeq(s, 1, 4)) = "EFTA"
    /\ \A i \in 5..Len(s) : IsDigitCh(Ch(s, i))

\* the doc_key of canonicalize_doc_ref for a reference that is one EFTA
\* token, or empty, or neither (its hash then stands as the text itself)
DocKeyOfStripped(raw_id) ==
    IF IsEftaToken(raw_id) THEN upper(raw_id)
    ELSE IF raw_id = "" THEN "RAW-000000000000"
    ELSE "RAW-" \o raw_id

DocKeyOf(raw_id) == DocKeyOfStripped(strip(raw_id))

\* upsert_document_id
upsert_document_id(store, doc_key) == [store EXCEPT !.document_ids = @ \cup {doc_key}]

\* canonicalize_doc_ref: the store afterwards; the key is DocKeyOf(raw_id)
canonicalize_doc_ref(store, raw_id) == upsert_document_id(store, DocKeyOf(raw_id))

\* an entity of knowledge_graph_entities.json; person_type "" stands for a
\* metadata object without the key
KgEntityRow(id, name, entity_type, aliases, person_type) ==
    [id |-> id, name |-> name, entity_type |-> entity_type, aliases |-> aliases,
     person_type |-> person_type]

\* "for key in (...): if key in kg_metadata and key not in existing_meta"
KgMergedMeta(existing_meta, entity) ==
    IF entity.person_type # "" /\ "person_type" \notin DOMAIN existing_meta.strings
    THEN MetaSetString(existing_meta, "person_type", entity.person_type)
    ELSE existing_meta

\* the metadata of a person the knowledge graph step creates
KgPersonMeta(entity) ==
    IF entity.person_type = "" THEN MetaSetString(EmptyMeta, "category", "other")
    ELSE MetaSetString(MetaSetString(EmptyMeta, "category", entity.person_type),
                       "person_type", entity.person_type)

\* the metadata of a non-person: a copy of kg_metadata
KgOtherMeta(entity) ==
    IF entity.person_type = "" THEN EmptyMeta
    ELSE MetaSetString(EmptyMeta, "person_type", entity.person_type)

SetMetadata(row, metadata) == [row EXCEPT !.metadata = metadata, !.last_updated = "ingest"]

SetAliases(row, aliases) == [row EXCEPT !.aliases = aliases, !.last_updated = "ingest"]

\* the matched branch of the person case: the resolver after the metadata
\* keys and the aliases were merged into the registry entry
KgMatchedResolver(r, cid, entity) ==
    IF entity.aliases # <<>>
    THEN merge_aliases([r EXCEPT !.registry[cid].metadata = KgMergedMeta(@, entity)],
                       cid, entity.aliases)
    ELSE [r EXCEPT !.registry[cid].metadata = KgMergedMeta(@, entity)]

\* and the store after its two UPDATEs and the resolution log row
KgMatchedStore(store, r, cid, entity) ==
    insert_resolution_log(
        IF entity.aliases # <<>>
        THEN UpdateEntity(UpdateEntity(store, cid,
                              LAMBDA row : SetMetadata(row, KgMatchedResolver(r, cid, entity).registry[cid].metadata)),
                          cid,
                          LAMBDA row : [row EXCEPT !.aliases = KgMatchedResolver(r, cid, entity).registry[cid].aliases])
        ELSE UpdateEntity(store, cid,
                 LAMBDA row : SetMetadata(row, KgMatchedResolver(r, cid, entity).registry[cid].metadata)),
        cid)

\* insert_canonical_entity and insert_resolution_log of a new entity
Minted(store, new_cid, entity_type, name, aliases, metadata) ==
    insert_resolution_log(
        insert_canonical_entity(store, new_cid, entity_type, name, aliases, metadata),
        new_cid)

\* what one pass of the entity loop of an ingestion step did
EntityOutcome(op, name, method, minted) ==
    [op |-> op, name |-> name, method |-> method, minted |-> minted]

\* one pass of "for entity in entities" on source.kg_entities[idx]
KgSkip(entity) ==
    /\ is_redaction_marker(strip(entity.name))
    /\ last' = EntityOutcome("kg_entity", strip(entity.name), "redaction", None)
    /\ UNCHANGED <<db, resolver, name_to_cid, issued>>

KgMatch(entity, cid, method) ==
    /\ db' = KgMatchedStore(db, resolver, cid, entity)
    /\ resolver' = KgMatchedResolver(resolver, cid, entity)
    /\ name_to_cid' = DictSet(name_to_cid, entity.id, cid)
    /\ last' = EntityOutcome("kg_entity", strip(entity.name), method, None)
    /\ UNCHANGED issued

KgNewPerson(entity, method, new_cid) ==
    /\ db' = Minted(db, new_cid, "person", strip(entity.name), entity.aliases,
                    KgPersonMeta(entity))
    /\ resolver' = add_to_registry(resolver, new_cid, strip(entity.name), entity.aliases)
    /\ name_to_cid' = DictSet(name_to_cid, entity.id, new_cid)
    /\ issued' = issued \cup {new_cid}
    /\ last' = EntityOutcome("kg_entity", strip(entity.name), method, new_cid)

KgPerson(entity, result) ==
    /\ ~is_redaction_marker(strip(entity.name))
    /\ entity.entity_type = "person"
    /\ IF result.cid # None THEN KgMatch(entity, result.cid, result.method)
       ELSE KgNewPerson(entity, result.method, get_next_id(db, "person"))

KgOther(entity, new_cid) ==
    /\ ~is_redaction_marker(strip(entity.name))
    /\ entity.entity_type # "person"
    /\ db' = Minted(db, new_cid, entity.entity_type, strip(entity.name), entity.aliases,
                    KgOtherMeta(entity))
    /\ name_to_cid' = DictSet(name_to_cid, entity.id, new_cid)
    /\ issued' = issued \cup {new_cid}
    /\ last' = EntityOutcome("kg_entity", strip(entity.name),
                             resolve(resolver, strip(entity.name)).method, new_cid)
    /\ UNCHANGED resolver

StepFrame ==
    UNCHANGED <<disk, dry_run, pc, deletable, flaggable, candidates, cleanups,
                reported, executed, previewed, completed, run, store0, phase0, source>>

KgEntity ==
    /\ pc = "kg_entities"
    /\ idx <= Len(source.kg_entities)
    /\ \/ KgSkip(source.kg_entities[idx])
       \/ KgPerson(source.kg_entities[idx], resolve(resolver, strip(source.kg_entities[idx].name)))
       \/ KgOther(source.kg_entities[idx], get_next_id(db, source.kg_entities[idx].entity_type))
    /\ idx' = idx + 1
    /\ UNCHANGED <<pair_action_count, pairkey_to_relid>>
    /\ StepFrame

\* conn.commit() at the end of a step of a script, and the next step begins
CommitStep(from, to) ==
    /\ pc = from
    /\ disk' = db
    /\ pc' = to
    /\ idx' = 1
    /\ last' = NoCall
    /\ UNCHANGED <<db, dry_run, deletable, flaggable, candidates, cleanups,
                   reported, executed, previewed, completed, run, store0, source>>

CommitKgEntities ==
    /\ idx > Len(source.kg_entities)
    /\ CommitStep("kg_entities", "kg_relationships")
    /\ UNCHANGED <<phase0, resolver, name_to_cid, pair_action_count, pairkey_to_relid, issued>>

\* a relationship of knowledge_graph_relationships.json; efta is
\* metadata.get("efta"), "" when absent
KgRelationshipRow(id, source_entity_id, target_entity_id, relationship_type, weight, efta) ==
    [id |-> id, source_entity_id |-> source_entity_id, target_entity_id |-> target_entity_id,
     relationship_type |-> relationship_type, weight |-> weight, efta |-> efta]

KgDocumented(store, rel) ==
    IF rel.efta # "" THEN canonicalize_doc_ref(store, rel.efta) ELSE store

KgLoaded(store, rel, source_cid, target_cid) ==
    insert_relationship_source(
        insert_relationship(KgDocumented(store, rel), source_cid, target_cid,
                            rel.relationship_type, rel.weight,
                            IF rel.efta # "" THEN {DocKeyOf(rel.efta)} ELSE {}),
        NextRelationshipId(store), "rhowardstone")

\* one pass of "for rel in rels" on source.kg_relationships[idx]
KgRelationshipPass(rel, source_cid, target_cid) ==
    /\ db' = IF source_cid = None \/ target_cid = None THEN db
             ELSE KgLoaded(db, rel, source_cid, target_cid)
    /\ last' = [op |-> "kg_relationship",
                loaded |-> source_cid # None /\ target_cid # None]

KgRelationship ==
    /\ pc = "kg_relationships"
    /\ idx <= Len(source.kg_relationships)
    /\ KgRelationshipPass(source.kg_relationships[idx],
                          DictGet(name_to_cid, source.kg_relationships[idx].source_entity_id),
                          DictGet(name_to_cid, source.kg_relationships[idx].target_entity_id))
    /\ idx' = idx + 1
    /\ UNCHANGED <<resolver, name_to_cid, pair_action_count, pairkey_to_relid, issued>>
    /\ StepFrame

\* the rhowardstone script ends; phase0 keeps the store it leaves
CommitKgRelationships ==
    /\ idx > Len(source.kg_relationships)
    /\ CommitStep("kg_relationships", "doc_explorer")
    /\ phase0' = db
    /\ UNCHANGED <<resolver, name_to_cid, pair_action_count, pairkey_to_relid, issued>>

\* a row of the entity_aliases table of the doc-explorer database
AliasRow(canonical_name, original_name) ==
    [canonical_name |-> canonical_name, original_name |-> original_name]

\* the keys of canonical_data in insertion order: the canonical names in the
\* order of "ORDER BY canonical_name"
RECURSIVE SortedNames(_)
SortedNames(names) ==
    IF names = {} THEN <<>>
    ELSE <<CHOOSE x \in names : \A y \in names : ~StrLess(y, x)>>
         \o SortedNames(names \ {CHOOSE x \in names : \A y \in names : ~StrLess(y, x)})

CanonicalNames(rows) == SortedNames({rows[i].canonical_name : i \in 1..Len(rows)})

\* canonical_data[canonical_name]["variants"]
Variants(rows, canonical_name) ==
    {rows[i].original_name : i \in {k \in 1..Len(rows) : rows[k].canonical_name = canonical_name}}

\* "[v for v in data['variants'] if v != de_canonical and not
\* is_redaction_marker(v)]" as a set; a set is iterated in any order
NewAliases(rows, de_canonical) ==
    {v \in Variants(rows, de_canonical) : v # de_canonical /\ ~is_redaction_marker(v)}

\* the doc-explorer script begins: ingest_entity_aliases builds its resolver
\* from load_canonical_registry
StartEntityAliases ==
    /\ pc = "doc_explorer"
    /\ RegistryLoads(db)
    /\ resolver' = EntityResolver(RegistryRows(db.canonical_entities), 90)
    /\ name_to_cid' = EmptyDict
    /\ pc' = "entity_aliases"
    /\ idx' = 1
    /\ last' = NoCall
    /\ UNCHANGED <<db, disk, dry_run, deletable, flaggable, candidates, cleanups,
                   reported, executed, previewed, completed, run, store0, phase0, source,
                   pair_action_count, pairkey_to_relid, issued>>

AliasSkip(de_canonical) ==
    /\ is_redaction_marker(de_canonical) \/ is_noise_entity_name(de_canonical)
    /\ last' = EntityOutcome("entity_alias", de_canonical,
                             IF is_redaction_marker(de_canonical) THEN "redaction"
                             ELSE "skipped_noise", None)
    /\ UNCHANGED <<db, resolver, name_to_cid, issued>>

AliasMatch(de_canonical, cid, method, new_aliases) ==
    /\ resolver' = IF new_aliases # <<>> THEN merge_aliases(resolver, cid, new_aliases)
                   ELSE resolver
    /\ db' = insert_resolution_log(
                 IF new_aliases # <<>>
                 THEN UpdateEntity(db, cid, LAMBDA row : SetAliases(row, merge_aliases(resolver, cid, new_aliases).registry[cid].aliases))
                 ELSE db,
                 cid)
    /\ name_to_cid' = DictSet(name_to_cid, de_canonical, cid)
    /\ last' = EntityOutcome("entity_alias", de_canonical, method, None)
    /\ UNCHANGED issued

AliasNew(de_canonical, method, new_cid, aliases) ==
    /\ db' = Minted(db, new_cid, "person", de_canonical, aliases,
                    MetaSetString(EmptyMeta, "source_system", "doc-explorer"))
    /\ resolver' = add_to_registry(resolver, new_cid, de_canonical, aliases)
    /\ name_to_cid' = DictSet(name_to_cid, de_canonical, new_cid)
    /\ issued' = issued \cup {new_cid}
    /\ last' = EntityOutcome("entity_alias", de_canonical, method, new_cid)

AliasResolved(de_canonical, result, aliases) ==
    /\ ~is_redaction_marker(de_canonical)
    /\ ~is_noise_entity_name(de_canonical)
    /\ IF result.cid # None THEN AliasMatch(de_canonical, result.cid, result.method, aliases)
       ELSE AliasNew(de_canonical, result.method, get_next_id(db, "person"), aliases)

\* one pass of "for de_canonical, data in canonical_data.items()"; the rows
\* carry no hop distance
EntityAlias ==
    /\ pc = "entity_aliases"
    /\ idx <= Len(CanonicalNames(source.entity_aliases))
    /\ \/ AliasSkip(CanonicalNames(source.entity_aliases)[idx])
       \/ \E aliases \in Arrangements(NewAliases(source.entity_aliases,
                                                 CanonicalNames(source.entity_aliases)[idx])) :
              AliasResolved(CanonicalNames(source.entity_aliases)[idx],
                            resolve(resolver, CanonicalNames(source.entity_aliases)[idx]),
                            aliases)
    /\ idx' = idx + 1
    /\ UNCHANGED <<pair_action_count, pairkey_to_relid>>
    /\ StepFrame

\* ingest_entity_aliases commits; ingest_rdf_triples begins with its
\* counters empty
CommitEntityAliases ==
    /\ idx > Len(CanonicalNames(source.entity_aliases))
    /\ CommitStep("entity_aliases", "rdf_triples")
    /\ pair_action_count' = EmptyDict
    /\ pairkey_to_relid' = EmptyDict
    /\ UNCHANGED <<phase0, resolver, name_to_cid, issued>>

\* a row of the rdf_triples table
Triple(actor, action, target, doc_id) ==
    [actor |-> actor, action |-> action, target |-> target, doc_id |-> doc_id]

\* alias_map = {orig: canon for orig, canon in alias_rows}: a later row wins
RECURSIVE AliasMapFrom(_, _, _)
AliasMapFrom(rows, i, d) ==
    IF i > Len(rows) THEN d
    ELSE AliasMapFrom(rows, i + 1, DictSet(d, rows[i].original_name, rows[i].canonical_name))

AliasMap(rows) == AliasMapFrom(rows, 1, [k \in {} |-> ""])

\* alias_map.get(name, name)
AliasOf(alias_map, name) == IF name \in DOMAIN alias_map THEN alias_map[name] ELSE name

ACTION_MAP ==
    <<<<"traveled with", "traveled_with">>, <<"flew with", "traveled_with">>,
      <<"associated with", "associated_with">>, <<"met with", "associated_with">>,
      <<"employed", "employed_by">>, <<"hired", "employed_by">>,
      <<"paid", "financial">>, <<"funded", "financial">>, <<"donated to", "financial">>,
      <<"communicated with", "communicated_with">>, <<"called", "communicated_with">>,
      <<"emailed", "communicated_with">>, <<"represented", "represented_by">>>>

\* the type of the first pattern of ACTION_MAP the action contains
MappedType(action_lower) ==
    IF \A i \in 1..Len(ACTION_MAP) : ~contains(action_lower, ACTION_MAP[i][1])
    THEN "associated_with"
    ELSE ACTION_MAP[CHOOSE i \in 1..Len(ACTION_MAP) :
                        /\ contains(action_lower, ACTION_MAP[i][1])
                        /\ \A j \in 1..(i - 1) : ~contains(action_lower, ACTION_MAP[j][1])][2]

\* (tuple(sorted([actor_cid, target_cid])), rel_type)
PairKey(actor_cid, target_cid, rel_type) ==
    IF StrLess(target_cid, actor_cid) THEN <<target_cid, actor_cid, rel_type>>
    ELSE <<actor_cid, target_cid, rel_type>>

\* Counter lookup
CountOf(counter, key) == IF key \in DOMAIN counter THEN counter[key] ELSE 0

\* "SELECT 1 FROM relationship_sources WHERE relationship_id = ? AND
\* source_system = 'doc-explorer'"
AlreadySourced(store, rel_id) ==
    \E p \in store.relationship_sources :
        p.relationship_id = rel_id /\ p.source_system = "doc-explorer"

\* the first triple of a pair and type, an edge existing: provenance only
Corroborated(store, rel_id) ==
    IF AlreadySourced(store, rel_id) THEN store
    ELSE insert_relationship_source(store, rel_id, "doc-explorer")

\* the first triple of a pair and type, no edge existing
Created(store, pair_key, doc_key) ==
    insert_relationship_source(
        insert_relationship(store, pair_key[1], pair_key[2], pair_key[3], 1, {doc_key}),
        NextRelationshipId(store), "doc-explorer")

\* "UPDATE relationships SET weight = COALESCE(weight, 0) + 1"
Incremented(store, rel_id) ==
    [store EXCEPT !.relationships =
        {IF r.relationship_id = rel_id THEN [r EXCEPT !.weight = @ + 1] ELSE r : r \in @}]

\* rel_id = None, as a number no AUTOINCREMENT key takes
NoRel == 0

\* pairkey_to_relid.get(pair_key)
RelIdOf(relids, pair_key) == IF pair_key \in DOMAIN relids THEN relids[pair_key] ELSE NoRel

TripleOutcome(pair_key, rel_id, branch) ==
    [op |-> "rdf_triple", pair_key |-> pair_key, rel_id |-> rel_id, branch |-> branch]

TripleSkipped(reason) ==
    /\ last' = TripleOutcome(<<>>, NoRel, reason)
    /\ UNCHANGED <<db, pair_action_count, pairkey_to_relid>>

\* the branch "pair_action_count[pair_key] == 1"
TripleFirst(pair_key, doc_key, store) ==
    /\ pair_action_count' = DictSet(pair_action_count, pair_key, 1)
    /\ IF find_existing_relationship(store, pair_key[1], pair_key[2], pair_key[3]) # {}
       THEN \E rel_id \in find_existing_relationship(store, pair_key[1], pair_key[2], pair_key[3]) :
                /\ db' = append_relationship_documents(Corroborated(store, rel_id),
                                                       rel_id, {doc_key})
                /\ pairkey_to_relid' = DictSet(pairkey_to_relid, pair_key, rel_id)
                /\ last' = TripleOutcome(pair_key, rel_id, "existing_corroborated")
       ELSE /\ db' = append_relationship_documents(Created(store, pair_key, doc_key),
                                                   NextRelationshipId(store), {doc_key})
            /\ pairkey_to_relid' = DictSet(pairkey_to_relid, pair_key, NextRelationshipId(store))
            /\ last' = TripleOutcome(pair_key, NextRelationshipId(store), "new_relationships")

\* the branch of a repeated pair and type
TripleRepeated(pair_key, doc_key, store, count, rel_id) ==
    /\ pair_action_count' = DictSet(pair_action_count, pair_key, count)
    /\ db' = IF rel_id = NoRel THEN store
             ELSE append_relationship_documents(
                      IF count <= 5 THEN Incremented(store, rel_id) ELSE store,
                      rel_id, {doc_key})
    /\ last' = TripleOutcome(pair_key, rel_id, "repeated")
    /\ UNCHANGED pairkey_to_relid

TripleCounted(pair_key, doc_id) ==
    IF CountOf(pair_action_count, pair_key) = 0
    THEN TripleFirst(pair_key, DocKeyOf(doc_id), canonicalize_doc_ref(db, doc_id))
    ELSE TripleRepeated(pair_key, DocKeyOf(doc_id), canonicalize_doc_ref(db, doc_id),
                        CountOf(pair_action_count, pair_key) + 1,
                        RelIdOf(pairkey_to_relid, pair_key))

TripleMapped(actor_cid, target_cid, action, doc_id) ==
    IF actor_cid = None \/ target_cid = None \/ actor_cid = target_cid
    THEN TripleSkipped("skipped_unresolved")
    ELSE TripleCounted(PairKey(actor_cid, target_cid, MappedType(lower(action))), doc_id)

TripleNamed(actor, target, actor_canonical, target_canonical, action, doc_id) ==
    IF is_redaction_marker(actor) \/ is_noise_entity_name(actor)
    THEN TripleSkipped("skipped_actor_noise")
    ELSE IF is_redaction_marker(target) \/ is_noise_entity_name(target)
    THEN TripleSkipped("skipped_target_noise")
    ELSE IF is_noise_entity_name(actor_canonical) \/ is_noise_entity_name(target_canonical)
    THEN TripleSkipped("skipped_alias_noise")
    ELSE TripleMapped(DictGet(name_to_cid, actor_canonical),
                      DictGet(name_to_cid, target_canonical), action, doc_id)

TriplePass(t, alias_map) ==
    IF t.actor = "" \/ t.target = "" THEN TripleSkipped("empty")
    ELSE TripleNamed(strip(t.actor), strip(t.target),
                     AliasOf(alias_map, strip(t.actor)), AliasOf(alias_map, strip(t.target)),
                     strip(t.action), strip(t.doc_id))

\* one pass of "for actor, action, target, doc_id in rows"
RdfTriple ==
    /\ pc = "rdf_triples"
    /\ idx <= Len(source.rdf_triples)
    /\ TriplePass(source.rdf_triples[idx], AliasMap(source.entity_aliases))
    /\ idx' = idx + 1
    /\ UNCHANGED <<resolver, name_to_cid, issued>>
    /\ StepFrame

\* ecare_conn.commit() after the loop; the update of source_evidence that
\* follows changes no column of the store
CommitRdfTriples ==
    /\ idx > Len(source.rdf_triples)
    /\ CommitStep("rdf_triples", "ingested")
    /\ UNCHANGED <<phase0, resolver, name_to_cid, pair_action_count, pairkey_to_relid, issued>>

\* the store create_db.py leaves
EmptyStore == MakeStore([rows |-> <<>>, bulk |-> 0], {}, <<>>)

\* stores the persons registry step of the rhowardstone script leaves
IngestStores ==
    {EmptyStore,
     Minted(EmptyStore, "PER-00001", "person", "Ghislaine Maxwell", <<>>, EmptyMeta)}

KgEntityFiles ==
    {<<KgEntityRow("1", "Jeffrey Epstein", "person", <<>>, ""),
       KgEntityRow("2", " Ghislaine Maxwell", "person", <<"G. Maxwell">>, "associate"),
       KgEntityRow("3", "Unknown Person", "person", <<>>, ""),
       KgEntityRow("4", "Zorro Ranch", "property", <<>>, "")>>,
     <<KgEntityRow("1", "Jeffrey Epstein", "person", <<>>, ""),
       KgEntityRow("2", "Ghislaine Maxwell", "person", <<>>, ""),
       KgEntityRow("3", "REDACTED", "person", <<>>, ""),
       KgEntityRow("4", "Epstein, Jeffrey", "person", <<"Jeff Epstein">>, "principal")>>}

KgRelationshipFiles ==
    {<<>>,
     <<KgRelationshipRow("1", "1", "2", "traveled_with", 1, "EFTA00000001")>>,
     <<KgRelationshipRow("1", "1", "2", "traveled_with", 1, "EFTA00000001"),
       KgRelationshipRow("2", "2", "3", "associated_with", 1, "")>>}

EntityAliasTables ==
    {<<AliasRow("Epstein, Jeffrey", "Epstein, Jeffrey"),
       AliasRow("Epstein, Jeffrey", "Jeff Epstein"),
       AliasRow("Ghislaine Maxwell", "Ghislaine Maxwell")>>,
     <<AliasRow("Epstein, Jeffrey", "Epstein, Jeffrey"),
       AliasRow("Ghislaine Maxwell", "Ghislaine Maxwell"),
       AliasRow("Leon Black", "Leon Black"),
       AliasRow("Leon Black", "Black, Leon"),
       AliasRow("Unknown Person", "Unknown Person")>>}

RdfTripleTables ==
    {<<>>,
     <<Triple("Jeff Epstein", "traveled with", "Ghislaine Maxwell", "EFTA00000002")>>,
     <<Triple("Epstein, Jeffrey", "flew with", "Ghislaine Maxwell", "efta00000003"),
       Triple("Ghislaine Maxwell", "Traveled with", "Epstein, Jeffrey", "EFTA00000002")>>,
     <<Triple("Black, Leon", "paid", "Epstein, Jeffrey", ""),
       Triple("Unknown Person", "met with", "Epstein, Jeffrey", "EFTA00000002")>>}

InitIngest ==
    /\ \E store \in IngestStores :
           /\ InitStore(store)
           /\ resolver = EntityResolver(RegistryRows(store.canonical_entities), 90)
    /\ source \in [kg_entities : KgEntityFiles, kg_relationships : KgRelationshipFiles,
                   entity_aliases : EntityAliasTables, rdf_triples : RdfTripleTables]
    /\ name_to_cid = EmptyDict
    /\ pair_action_count = EmptyDict
    /\ pairkey_to_relid = EmptyDict
    /\ issued = {}
    /\ dry_run = FALSE
    /\ pc = "kg_entities"

NextIngest ==
    \/ KgEntity \/ CommitKgEntities
    \/ KgRelationship \/ CommitKgRelationships
    \/ StartEntityAliases
    \/ EntityAlias \/ CommitEntityAliases
    \/ RdfTriple \/ CommitRdfTriples

SpecIngest == InitIngest /\ [][NextIngest]_vars

(***************************************************************************)
(* Properties                                                              *)
(***************************************************************************)
RECURSIVE SumWeights(_)
SumWeights(rels) ==
    IF rels = {} THEN 0
    ELSE LET r == CHOOSE x \in rels : TRUE
         IN  r.weight + SumWeights(rels \ {r})

Merged == last.op = "merge" /\ last.acted

\* C1: after a non-dry-run merge_entity_pair(survivor, absorbed) in which
\* both entities exist, no relationship has the absorbed id as source or
\* target, no resolution-log row references it, and its row is gone.
C1_AbsorbedIdGone ==
    Merged =>
        /\ \A r \in db.relationships :
               r.source_entity_id # last.absorbed_id /\ r.target_entity_id # last.absorbed_id
        /\ \A l \in db.entity_resolution_log : l.canonical_id # last.absorbed_id
        /\ ~HasEntity(db, last.absorbed_id)

C1_Witness ==
    /\ Merged
    /\ \E r \in last.pre.relationships : r.source_entity_id = last.absorbed_id
    /\ \E r \in last.pre.relationships : r.target_entity_id = last.absorbed_id
    /\ \E l \in last.pre.entity_resolution_log : l.canonical_id = last.absorbed_id

\* C2: after a non-dry-run merge the survivor has exactly one edge for each
\* unordered (third entity, type) that occurred in the edge set of the
\* survivor or of the absorbed entity, never two edges with the same
\* unordered (pair, type), and no edge from the survivor to itself.
C2_SurvivorEdgesDeduplicated ==
    Merged =>
        LET s == last.survivor_id
            a == last.absorbed_id
        IN  /\ \A r \in last.pre.relationships :
                   \A o \in {r.source_entity_id, r.target_entity_id} \ {s, a} :
                       (Touches(r, s) \/ Touches(r, a)) =>
                           Cardinality(EdgesBetween(db, s, o, r.relationship_type)) = 1
            /\ \A r \in db.relationships :
                   Touches(r, s) =>
                       EdgesBetween(db, r.source_entity_id, r.target_entity_id,
                                    r.relationship_type) = {r}
            /\ \A r \in db.relationships :
                   ~(r.source_entity_id = s /\ r.target_entity_id = s)

C2_Witness ==
    /\ Merged
    /\ \E o \in EntityIds(db) \ {last.survivor_id} :
           /\ EdgesBetween(last.pre, last.survivor_id, o, "associated_with") # {}
           /\ Cardinality(EdgesBetween(last.pre, last.absorbed_id, o, "associated_with")) >= 2
    /\ EdgesBetween(last.pre, last.survivor_id, last.absorbed_id, "associated_with") # {}

\* the duplicate groups the consolidation of entity_id finds in a store
DuplicateGroups(store, entity_id) ==
    {g \in {EdgesBetween(store, r.source_entity_id, r.target_entity_id, r.relationship_type) :
               r \in TouchingRels(store, entity_id)} : Cardinality(g) >= 2}

MaxWeightOf(g) == CHOOSE w \in {r.weight : r \in g} : \A r \in g : r.weight <= w

\* C3: consolidation on an entity keeps, for every group of two or more
\* edges sharing the unordered (pair, type), an edge of greatest weight, and
\* its weight afterwards is the sum of the weights of the whole group.
C3_KeptEdgeHasGroupSum ==
    last.op = "consolidate" =>
        \A g \in DuplicateGroups(last.pre, last.entity_id) :
            \E k \in g :
                /\ k.weight = MaxWeightOf(g)
                /\ \E r \in db.relationships :
                       /\ r.relationship_id = k.relationship_id
                       /\ r.weight = SumWeights(g)
                /\ \A q \in g \ {k} :
                       \A r \in db.relationships : r.relationship_id # q.relationship_id

\* C4: a second consolidation of the same entity right after the first
\* changes no relationship row and no provenance row and reports zero.
C4_ConsolidationIdempotent ==
    (last.op = "consolidate" /\ last.repeated) =>
        /\ db.relationships = last.pre.relationships
        /\ db.relationship_sources = last.pre.relationship_sources
        /\ last.consolidated = 0

C4_Witness ==
    last.op = "consolidate" /\ last.repeated /\ last.first >= 2 /\ last.consolidated = 0

\* the store the current run of main started from has finished Phase 1
PhaseADone == pc = "phase2" /\ ~dry_run

\* the unflagged noise entities of a store
UnflaggedNoise(store) ==
    {e \in SeqToSet(store.canonical_entities) :
        is_expanded_noise(e.canonical_name) /\ ~IsFlagged(e.metadata)}

EdgeCount(store, cid) ==
    Cardinality({r \in store.relationships :
                    r.source_entity_id = cid \/ r.target_entity_id = cid})

\* C5: after Phase 1 of a real run, every unflagged noise entity that had
\* at most 50 edges is deleted, and every one that had more than 50 edges
\* still exists and carries exclude_from_analysis with its reason.
C5_NoiseDeletedOrFlagged ==
    PhaseADone =>
        \A e \in UnflaggedNoise(store0) :
            IF EdgeCount(store0, e.canonical_id) <= 50
            THEN ~HasEntity(db, e.canonical_id)
            ELSE /\ HasEntity(db, e.canonical_id)
                 /\ LET m == EntityRow(db, e.canonical_id).metadata
                    IN  /\ "exclude_from_analysis" \in DOMAIN m.bools
                        /\ m.bools["exclude_from_analysis"]
                        /\ "exclude_reason" \in DOMAIN m.strings
                        /\ m.strings["exclude_reason"] = _classify_noise(e.canonical_name)

C5_Witness ==
    /\ PhaseADone
    /\ \E e \in UnflaggedNoise(store0) : EdgeCount(store0, e.canonical_id) = 51
    /\ \E e \in UnflaggedNoise(store0) : EdgeCount(store0, e.canonical_id) \in 1..50

\* C6: Phase 1 of a real run leaves every edge that touched an entity it
\* flagged, and the provenance rows of that edge, as they were, whatever
\* other noise entities it deleted.
C6_FlaggedEdgesIntact ==
    PhaseADone =>
        \A d \in executed :
            d[1] = "flag" =>
                /\ \A r \in store0.relationships :
                       Touches(r, d[2]) => r \in db.relationships
                /\ \A p \in store0.relationship_sources :
                       (\E r \in store0.relationships :
                            r.relationship_id = p.relationship_id /\ Touches(r, d[2]))
                           => p \in db.relationship_sources

\* C7: a dry run inserts, updates and deletes no row of the five tables,
\* in any phase: no step taken under dry_run changes the store of the
\* connection or the committed store.
C7_DryRunWritesNothing == [][dry_run => (db' = db /\ disk' = disk)]_vars

C7_Witness ==
    /\ dry_run
    /\ pc = "done"
    /\ \E d \in reported : d[1] = "delete"
    /\ \E d \in reported : d[1] = "flag"

\* C8: the set of decisions a dry run reports is the set of actions the
\* real run that follows it on the same store executes.
C8_PreviewEqualsExecution ==
    (pc = "done" /\ ~dry_run /\ previewed) => executed = reported

\* C9: each phase is atomic with respect to a stop of the process: the
\* committed store is the store of the last phase boundary, every
\* committed edge whose endpoint was repointed has the entity_merges record
\* of the absorbed endpoint, and no committed provenance row belongs to an
\* edge of a deleted entity.
C9_PhasesAtomic ==
    /\ disk = phase0
    /\ \A r \in disk.relationships :
           \A q \in store0.relationships :
               q.relationship_id = r.relationship_id =>
                   \A old \in {q.source_entity_id, q.target_entity_id}
                                \ {r.source_entity_id, r.target_entity_id} :
                       \E i \in DOMAIN disk.entity_merges :
                           disk.entity_merges[i].absorbed_id = old
    /\ \A e \in EntityIds(store0) \ EntityIds(disk) :
           \A p \in disk.relationship_sources :
               \E r \in disk.relationships :
                   r.relationship_id = p.relationship_id /\ ~Touches(r, e)

C9_Witness ==
    /\ pc = "crashed"
    /\ ~dry_run
    /\ disk # store0
    /\ \E i \in DOMAIN disk.entity_merges : disk.entity_merges[i].survivor_id = "NOISE_DELETED"
    /\ \E i \in DOMAIN disk.entity_merges : disk.entity_merges[i].survivor_id # "NOISE_DELETED"

\* C10: within a run every entity the run destroyed has exactly one
\* entity_merges record written by the run that names it as absorbed_id,
\* and the records that existed when the run started are all still there,
\* unchanged.
C10_OneMergeRecordPerDestroyed ==
    /\ Len(store0.entity_merges) <= Len(db.entity_merges)
    /\ SubSeq(db.entity_merges, 1, Len(store0.entity_merges)) = store0.entity_merges
    /\ \A e \in EntityIds(store0) \ EntityIds(db) :
           Cardinality({i \in (Len(store0.entity_merges) + 1)..Len(db.entity_merges) :
                           db.entity_merges[i].absorbed_id = e}) = 1

C10_Witness ==
    /\ run = 2
    /\ store0.entity_merges # <<>>
    /\ \E e \in EntityIds(store0) \ EntityIds(db) : TRUE

\* the alias list of a row has no two entries equal ignoring case and no
\* entry equal, ignoring case, to the canonical name
AliasesClean(e) ==
    /\ \A i, j \in 1..Len(e.aliases) : i # j => lower(e.aliases[i]) # lower(e.aliases[j])
    /\ \A i \in 1..Len(e.aliases) : lower(e.aliases[i]) # lower(e.canonical_name)

\* C11: after any sequence of entity merges and Phase 3 renames on a store
\* whose alias lists are clean, every alias list is still clean: no two
\* aliases equal ignoring case, none equal ignoring case to the canonical name
C11_AliasInvariant ==
    \A i \in 1..Len(db.canonical_entities) : AliasesClean(db.canonical_entities[i])


\* resolve reached the noise test with source_name: it is not blank
NotBlank(source_name) == source_name # "" /\ strip(source_name) # ""

\* C12 as stated: resolve returns (None, "noise", 0.0) for every input the
\* noise classifier rejects, the empty and the whitespace-only input included.
C12_NoiseForEveryRejected ==
    (last.op = "resolve" /\ is_noise_entity_name(last.source_name))
        => last.result = [cid |-> None, method |-> "noise", confidence |-> <<0, 1>>]

\* C12, amended: for every input that is not blank and that the noise
\* classifier rejects, resolve returns (None, "noise", 0.0) whatever the
\* registry holds, even the very name; for the empty or whitespace-only
\* input it returns (None, "no_match", 0.0).
C12_NoiseBeforeMatching ==
    last.op = "resolve" =>
        /\ (NotBlank(last.source_name) /\ is_noise_entity_name(strip(last.source_name)))
               => last.result = [cid |-> None, method |-> "noise", confidence |-> <<0, 1>>]
        /\ ~NotBlank(last.source_name)
               => last.result = [cid |-> None, method |-> "no_match", confidence |-> <<0, 1>>]

\* a noise name that the registry holds as a canonical name was resolved
C12_Witness ==
    /\ last.op = "resolve"
    /\ NotBlank(last.source_name)
    /\ is_noise_entity_name(last.source_name)
    /\ lower(last.source_name) \in DOMAIN resolver.exact_lookup
    /\ last.result.method = "noise"

\* the names registered for canonical_id: its canonical name and aliases
RegisteredNames(r, cid) ==
    {r.registry[cid].canonical_name}
    \cup {r.registry[cid].aliases[i] : i \in 1..Len(r.registry[cid].aliases)}

\* C13: for two different names that both satisfy is_numbered_reference, the
\* first registered as a canonical name or alias, resolve of the second
\* never returns the id of the first, by any tier.
C13_NumberedNeverCrossMatch ==
    (last.op = "resolve" /\ is_numbered_reference(last.source_name))
        => \A cid \in DOMAIN resolver.registry :
               \A first \in RegisteredNames(resolver, cid) :
                   (is_numbered_reference(first) /\ first # last.source_name)
                       => last.result.cid # cid

\* resolve went past the exact tier and the numbered-reference test and
\* asked extractOne
ReachedExtractOne(r, source_name) ==
    /\ NotBlank(source_name)
    /\ ~is_noise_entity_name(strip(source_name))
    /\ \A form \in {lower(strip(source_name)), lower(normalize_name(strip(source_name))),
                    lower(get_short_name(strip(source_name)))} :
           form \notin DOMAIN r.exact_lookup
    /\ ~is_numbered_reference(strip(source_name))
    /\ r.all_names # <<>>

\* some indexed name scores at least k against the normalized input
BestAtLeast(r, normalized, k) ==
    \E i \in 1..Len(r.all_names) :
        ScoreAtLeast(token_sort_ratio(normalized, r.all_names[i][1]), k)

C16_NoDuplicateEdgesAfterCleanup ==
    (pc = "done" /\ ~dry_run)
        => \A r, q \in db.relationships :
               q \in EdgesBetween(db, r.source_entity_id, r.target_entity_id,
                                  r.relationship_type)
                   => q = r

\* C18: normalize_name is idempotent: applied to its own result it returns
\* that result unchanged, for names with several commas or stacked suffixes
\* too.
C18_NormalizeIdempotent ==
    (last.op = "normalize" /\ idx > 2) => last.normalized = last.name

\* C17: an entity row whose alias or metadata payload cannot be parsed
\* never aborts the cleanup run: no run ends on the exception of the parse,
\* with its phase uncommitted and the remaining entities unprocessed.
C17_MalformedNeverFatal == pc # "failed"

\* the ids of a prefix assigned before a call: those of the rows the store
\* started with and those handed out since
AssignedBefore(prefix) ==
    {cid \in EntityIds(store0) \cup last.issued : startswith(cid, prefix \o "-")}

\* C19: every id returned by get_next_id for a type is strictly greater than
\* every id assigned before for that prefix, the ids of entities since
\* absorbed or deleted included, so no id is assigned twice
C19_IdsMonotonic ==
    last.op = "get_next_id" =>
        \A cid \in AssignedBefore(IdPrefix(last.entity_type)) :
            IdNumber(last.result) > IdNumber(cid)

\* C20: an ingestion step mints a new canonical entity only for a name that
\* resolve reported as "no_match"; a name resolve reports as "noise" never
\* becomes a canonical entity, in any ingestion path
C20_MintOnlyOnNoMatch ==
    (last.op \in {"kg_entity", "entity_alias"} /\ last.minted # None)
        => last.method = "no_match"

\* the pairs and types that the knowledge graph asserted with one edge of
\* weight 1 and the RDF triples asserted once
AssertedOnceByBoth ==
    {key \in DOMAIN pair_action_count :
        /\ pair_action_count[key] = 1
        /\ Cardinality(EdgesBetween(phase0, key[1], key[2], key[3])) = 1
        /\ \A r \in EdgesBetween(phase0, key[1], key[2], key[3]) :
               /\ r.weight = 1
               /\ \E p \in phase0.relationship_sources :
                      p.relationship_id = r.relationship_id /\ p.source_system = "rhowardstone"}

\* C15: when two sources each assert an edge of the same type between the
\* same pair of canonical entities, exactly one edge exists afterwards, its
\* weight is 2, and two provenance rows point at it
C15_TwoSourcesOneEdgeOfWeightTwo ==
    pc = "ingested" =>
        \A key \in AssertedOnceByBoth :
            /\ Cardinality(EdgesBetween(db, key[1], key[2], key[3])) = 1
            /\ \A r \in EdgesBetween(db, key[1], key[2], key[3]) :
                   /\ r.weight = 2
                   /\ Cardinality({p \in db.relationship_sources :
                                      p.relationship_id = r.relationship_id}) = 2

\* the entity is in the store and carries exclude_from_analysis
FlaggedIn(store, cid) == HasEntity(store, cid) /\ IsFlagged(EntityRow(store, cid).metadata)

\* C21: Phase B schedules no entity flagged exclude_from_analysis, as the
\* absorbed side or as the survivor, and a merge never turns a survivor
\* that was not flagged into a flagged one
C21_PhaseBSkipsFlagged ==
    /\ pc = "merge_loop" =>
           \A i \in 1..Len(candidates) :
               ~FlaggedIn(phase0, candidates[i][1]) /\ ~FlaggedIn(phase0, candidates[i][2])
    /\ (last.op = "merge" /\ last.acted /\ FlaggedIn(db, last.survivor_id))
           => FlaggedIn(last.pre, last.survivor_id)

(***************************************************************************)
(* find_merge_candidates called on stores whose relationship graph varies  *)
(***************************************************************************)
\* the pairs of rows an edge may join
GraphSlots == <<<<1, 4>>, <<1, 5>>, <<2, 4>>, <<2, 5>>, <<3, 4>>, <<3, 5>>, <<2, 3>>>>

\* a surname-only person and two full names of that surname
SurnameRegistry ==
    <<Entity("PER-00001", "person", "Mr. Cassell", <<>>, EmptyMeta),
      Entity("PER-00002", "person", "Brad Cassell", <<>>, EmptyMeta),
      Entity("PER-00003", "person", "Paul Cassell", <<>>, EmptyMeta),
      Entity("PER-00004", "person", "Ghislaine Maxwell", <<>>, EmptyMeta),
      Entity("PER-00005", "person", "Leon Black", <<>>, EmptyMeta)>>

\* a person whose alias is the name of another person
AliasChainRegistry ==
    <<Entity("PER-00001", "person", "John Smith", <<>>, EmptyMeta),
      Entity("PER-00002", "person", "JOHN SMITH", <<"Johnny Smith">>, EmptyMeta),
      Entity("PER-00003", "person", "Johnny Smith", <<>>, EmptyMeta),
      Entity("PER-00004", "person", "Ghislaine Maxwell", <<>>, EmptyMeta),
      Entity("PER-00005", "person", "Leon Black", <<>>, EmptyMeta)>>

GraphRegistries == {SurnameRegistry, AliasChainRegistry}

\* the store of rows with one associated_with edge per slot of present
GraphStore(rows, present) ==
    [canonical_entities |-> rows,
     relationships |->
         {[relationship_id |-> i,
           source_entity_id |-> rows[GraphSlots[i][1]].canonical_id,
           target_entity_id |-> rows[GraphSlots[i][2]].canonical_id,
           relationship_type |-> "associated_with",
           weight |-> 1,
           source_documents |-> {}] : i \in present},
     relationship_sources |->
         {[id |-> i, relationship_id |-> i, source_system |-> "rhowardstone"] : i \in present},
     entity_resolution_log |->
         {[resolution_id |-> i, canonical_id |-> rows[i].canonical_id] : i \in 1..Len(rows)},
     entity_merges |-> <<>>,
     document_ids |-> {}]

InitCandidates ==
    /\ \E rows \in GraphRegistries, present \in SUBSET (1..Len(GraphSlots)) :
           InitRun(GraphStore(rows, present))
    /\ dry_run = TRUE
    /\ pc = "find"

\* candidates = find_merge_candidates(conn)
CallFindMergeCandidates ==
    /\ pc = "find"
    /\ candidates' = find_merge_candidates(db)
    /\ pc' = "found"
    /\ last' = [op |-> "find_merge_candidates", pre |-> db]
    /\ UNCHANGED <<db, disk, dry_run, idx, deletable, flaggable, cleanups, reported,
                   executed, previewed, completed, run, store0, phase0>>
    /\ UNCHANGED ingest_vars

NextCandidates == CallFindMergeCandidates

SpecCandidates == InitCandidates /\ [][NextCandidates]_vars

\* C22: in the ordered candidate list of one batch no id is the absorbed
\* side of two candidates, and no candidate's survivor is an id that an
\* earlier candidate of the list schedules as absorbed
C22_NoTwiceAbsorbedNoStaleSurvivor ==
    pc = "found" =>
        /\ \A i, j \in 1..Len(candidates) : candidates[i][2] = candidates[j][2] => i = j
        /\ \A i, j \in 1..Len(candidates) : i < j => candidates[j][1] # candidates[i][2]

\* the persons of store as a set of rows
PersonRows(store) == {Persons(store)[i] : i \in 1..Len(Persons(store))}

\* the ids of the persons of store whose cleaned name has one word
SurnameOnly(store) ==
    {p.canonical_id : p \in {q \in PersonRows(store) : Len(CleanWords(q.canonical_name)) = 1}}

\* the ids of the persons whose cleaned full name ends with the cleaned name of cid
SharingSurname(store, cid) ==
    {p.canonical_id : p \in {q \in PersonRows(store) :
        /\ Len(CleanWords(q.canonical_name)) >= 2
        /\ LastWord(CleanWords(q.canonical_name))
               = CleanWords(EntityRow(store, cid).canonical_name)[1]}}

\* the Jaccard similarity of the neighbor sets of two entities, as a fraction
NeighborScore(store, a, b) ==
    IF _get_neighbors(store, a) = {} \/ _get_neighbors(store, b) = {} THEN <<0, 1>>
    ELSE Jaccard(_get_neighbors(store, a), _get_neighbors(store, b))

\* the list schedules absorbed_id to be merged into survivor_id
ScheduledInto(survivor_id, absorbed_id) ==
    \E i \in 1..Len(candidates) :
        candidates[i][1] = survivor_id /\ candidates[i][2] = absorbed_id

\* score >= 0.05
AtLeastFloor(score) == 20 * score[1] >= score[2]

\* a >= 1.5 * b and a > 1.5 * b on fractions
AtLeastThreeHalves(a, b) == 2 * a[1] * b[2] >= 3 * b[1] * a[2]

MoreThanThreeHalves(a, b) == 2 * a[1] * b[2] > 3 * b[1] * a[2]

\* C23: with several full names of the surname, the surname-only entity is
\* scheduled into a candidate exactly when that candidate's score is at least
\* 0.05 and at least 1.5 times every other candidate's score, equality included
C23_ClearWinnerInclusive ==
    pc = "found" =>
        \A s \in SurnameOnly(db) :
            Cardinality(SharingSurname(db, s)) >= 2 =>
                \A c \in SharingSurname(db, s) :
                    ScheduledInto(c, s) <=>
                        /\ AtLeastFloor(NeighborScore(db, s, c))
                        /\ \A o \in SharingSurname(db, s) \ {c} :
                               AtLeastThreeHalves(NeighborScore(db, s, c),
                                                  NeighborScore(db, s, o))

\* C23 amended: the candidate is taken exactly when its score is at least
\* 0.05 and strictly more than 1.5 times every other candidate's score
C23_ClearWinnerStrict ==
    pc = "found" =>
        \A s \in SurnameOnly(db) :
            Cardinality(SharingSurname(db, s)) >= 2 =>
                \A c \in SharingSurname(db, s) :
                    ScheduledInto(c, s) <=>
                        /\ AtLeastFloor(NeighborScore(db, s, c))
                        /\ \A o \in SharingSurname(db, s) \ {c} :
                               MoreThanThreeHalves(NeighborScore(db, s, c),
                                                   NeighborScore(db, s, o))

\* a surname-only entity scheduled into the better of two candidates that
\* both share neighbors with it
C23_Witness ==
    /\ pc = "found"
    /\ \E s \in SurnameOnly(db) : \E c \in SharingSurname(db, s) :
           /\ ScheduledInto(c, s)
           /\ \E o \in SharingSurname(db, s) \ {c} : NeighborScore(db, s, o)[1] > 0

\* the provenance rows of a store that belong to the edge rid
SourcesOf(store, rid) == {p \in store.relationship_sources : p.relationship_id = rid}

\* C24: consolidation drops no provenance: for every duplicate group one edge
\* is kept, every other edge of the group is deleted, each provenance row of
\* a deleted edge is afterwards a row of the kept edge, and the number of
\* provenance rows is unchanged
C24_ProvenanceKept ==
    last.op = "consolidate" =>
        /\ \A g \in DuplicateGroups(last.pre, last.entity_id) :
               \E k \in g :
                   /\ \E r \in db.relationships : r.relationship_id = k.relationship_id
                   /\ \A q \in g \ {k} :
                          /\ \A r \in db.relationships : r.relationship_id # q.relationship_id
                          /\ \A p \in SourcesOf(last.pre, q.relationship_id) :
                                 [p EXCEPT !.relationship_id = k.relationship_id]
                                     \in db.relationship_sources
        /\ Cardinality(db.relationship_sources) = Cardinality(last.pre.relationship_sources)

\* a group of three edges consolidated, a deleted edge of which had two
\* provenance rows
C24_Witness ==
    /\ last.op = "consolidate"
    /\ \E g \in DuplicateGroups(last.pre, last.entity_id) :
           /\ Cardinality(g) >= 3
           /\ \E q \in g :
                  /\ \A r \in db.relationships : r.relationship_id # q.relationship_id
                  /\ Cardinality(SourcesOf(last.pre, q.relationship_id)) >= 2

\* sort_key of append_relationship_documents: EFTA, then DOJ-OGR, then the rest
DocRank(x) ==
    IF startswith(upper(x), "EFTA") THEN 0
    ELSE IF startswith(upper(x), "DOJ-OGR") THEN 1
    ELSE 2

\* kept is what a list of docs sorted by DocRank and cut to DOC_CAP may hold
CappedByRank(kept, docs) ==
    /\ kept \subseteq docs
    /\ Cardinality(kept) = IF Cardinality(docs) <= DOC_CAP THEN Cardinality(docs) ELSE DOC_CAP
    /\ \A x \in kept : \A y \in docs \ kept : DocRank(x) <= DocRank(y)

\* C25: after consolidation the edge kept for a duplicate group, of any
\* size, lists the union of the documents of all edges of the group, cut to
\* 200 with EFTA before DOJ-OGR before raw-hash identifiers
C25_KeptEdgeListsGroupUnion ==
    last.op = "consolidate" =>
        \A g \in DuplicateGroups(last.pre, last.entity_id) :
            \E r \in db.relationships :
                /\ r.relationship_id \in {q.relationship_id : q \in g}
                /\ CappedByRank(r.source_documents, UNION {q.source_documents : q \in g})

\* the rows of a store that a deletion of cid is to remove
RowsOfEntity(store, cid) ==
    [entities |-> {store.canonical_entities[i] : i \in
                      {j \in 1..Len(store.canonical_entities) :
                           store.canonical_entities[j].canonical_id = cid}},
     relationships |-> TouchingRels(store, cid),
     relationship_sources |->
         {p \in store.relationship_sources :
              \E r \in TouchingRels(store, cid) : r.relationship_id = p.relationship_id},
     entity_resolution_log |-> {l \in store.entity_resolution_log : l.canonical_id = cid}]

NoRows == [entities |-> {}, relationships |-> {}, relationship_sources |-> {},
           entity_resolution_log |-> {}]

\* C26: a noise deletion removes the entity row, the relationships touching
\* the entity, the provenance rows of those relationships and the log rows
\* of the entity, removes no other row, and the committed store holds either
\* all of these rows or none of them
C26_DeleteRemovesExactlyItsRows ==
    (last.op = "delete" /\ ~dry_run) =>
        LET cid == last.canonical_id
            gone == RowsOfEntity(last.pre, cid)
        IN  /\ db.canonical_entities =
                   SelectSeq(last.pre.canonical_entities, LAMBDA e : e.canonical_id # cid)
            /\ db.relationships = last.pre.relationships \ gone.relationships
            /\ db.relationship_sources
                   = last.pre.relationship_sources \ gone.relationship_sources
            /\ db.entity_resolution_log
                   = last.pre.entity_resolution_log \ gone.entity_resolution_log
            /\ SubSeq(db.entity_merges, 1, Len(last.pre.entity_merges))
                   = last.pre.entity_merges
            /\ db.document_ids = last.pre.document_ids
            /\ IF HasEntity(disk, cid)
               THEN /\ gone.relationships \subseteq disk.relationships
                    /\ gone.relationship_sources \subseteq disk.relationship_sources
                    /\ gone.entity_resolution_log \subseteq disk.entity_resolution_log
               ELSE RowsOfEntity(disk, cid) = NoRows

\* a deleted entity that had an edge with two provenance rows and a log
\* row, before the phase is committed
C26_Witness ==
    /\ last.op = "delete"
    /\ ~dry_run
    /\ HasEntity(disk, last.canonical_id)
    /\ Cardinality(RowsOfEntity(last.pre, last.canonical_id).relationship_sources) >= 2
    /\ RowsOfEntity(last.pre, last.canonical_id).entity_resolution_log # {}
    /\ db.relationships # {}

\* the ids the rename loop has gone through so far
RenamedSoFar == {cleanups[k][1] : k \in 1..(idx - 1)}

\* C27: Phase C neither merges nor deletes: during the rename loop the
\* entity ids, the relationships, the provenance rows, the resolution log
\* and entity_merges are those the phase started with, and an entity row
\* differs from the one the phase started with only in canonical_name,
\* aliases and last_updated, and only if the loop has renamed it
C27_PhaseCOnlyRenames ==
    pc = "rename_loop" =>
        /\ Len(db.canonical_entities) = Len(phase0.canonical_entities)
        /\ db.relationships = phase0.relationships
        /\ db.relationship_sources = phase0.relationship_sources
        /\ db.entity_resolution_log = phase0.entity_resolution_log
        /\ db.entity_merges = phase0.entity_merges
        /\ \A i \in 1..Len(phase0.canonical_entities) :
               LET before == phase0.canonical_entities[i]
                   after == db.canonical_entities[i]
               IN  /\ after = [before EXCEPT !.canonical_name = after.canonical_name,
                                             !.aliases = after.aliases,
                                             !.last_updated = after.last_updated]
                   /\ before.canonical_id \notin RenamedSoFar => after = before

\* a non-dry run that has renamed one entity and left others as they were,
\* in a store that has relationships and a merge record
C27_Witness ==
    /\ pc = "rename_loop"
    /\ ~dry_run
    /\ last.op = "rename"
    /\ db.canonical_entities # phase0.canonical_entities
    /\ \E i \in 1..Len(db.canonical_entities) :
           db.canonical_entities[i].canonical_id \notin RenamedSoFar
    /\ db.relationships # {}
    /\ db.entity_merges # <<>>

\* a store without dangling references: the checks of run_validation on
\* relationships, and the same for provenance and resolution-log rows
NoDanglingReferences(store) ==
    /\ \A r \in store.relationships :
           HasEntity(store, r.source_entity_id) /\ HasEntity(store, r.target_entity_id)
    /\ \A p \in store.relationship_sources :
           \E r \in store.relationships : r.relationship_id = p.relationship_id
    /\ \A l \in store.entity_resolution_log : HasEntity(store, l.canonical_id)

\* C28: when the store a run starts from has no dangling reference, the
\* store as committed after each phase has none: every relationship joins
\* existing entities, every provenance row belongs to an existing
\* relationship and every resolution-log row to an existing entity
C28_ReferentialIntegrityKept == NoDanglingReferences(store0) => NoDanglingReferences(disk)

\* a completed non-dry run that deleted a noise entity and merged a pair
\* whose absorbed side had relationships, and left relationships
C28_Witness ==
    /\ pc = "done"
    /\ ~dry_run
    /\ NoDanglingReferences(store0)
    /\ \E i \in DOMAIN disk.entity_merges :
           disk.entity_merges[i].survivor_id = "NOISE_DELETED"
    /\ \E i \in DOMAIN disk.entity_merges :
           /\ disk.entity_merges[i].survivor_id # "NOISE_DELETED"
           /\ ~HasEntity(disk, disk.entity_merges[i].absorbed_id)
           /\ TouchingRels(store0, disk.entity_merges[i].absorbed_id) # {}
    /\ disk.relationships # {}
    /\ disk.relationship_sources # {}

(***************************************************************************)
(* EntityResolver built from one registry walked in different orders       *)
(***************************************************************************)
\* registries in which two entities share an indexed form: the short form
\* of one is the name of the other, or both carry the same alias
OrderRegistries ==
    {{Entity("PER-00001", "person", "John Kerry", <<>>, EmptyMeta),
      Entity("PER-00002", "person", "John Forbes Kerry", <<>>, EmptyMeta),
      Entity("PER-00003", "person", "Ghislaine Maxwell", <<>>, EmptyMeta)},
     {Entity("PER-00001", "person", "Leon Black", <<"Mr. Black">>, EmptyMeta),
      Entity("PER-00002", "person", "Conrad Black", <<"Mr. Black">>, EmptyMeta),
      Entity("PER-00003", "person", "Ghislaine Maxwell", <<>>, EmptyMeta)}}

OrderNames ==
    {"John Kerry", "John Forbes Kerry", "Mr. Black", "Ghislaine Maxwell", "Leon Black",
     "Zed Quux"}

\* "for cid, entity in registry.items()" walks the dict in insertion order
InitOrder ==
    /\ \E entities \in OrderRegistries, t \in Thresholds :
           \E rows \in Arrangements(entities) :
               /\ InitStore(MakeStore([rows |-> rows, bulk |-> 0], {}, <<>>))
               /\ resolver = EntityResolver(RegistryRows(rows), t)
    /\ name_to_cid = EmptyDict
    /\ pair_action_count = EmptyDict
    /\ pairkey_to_relid = EmptyDict
    /\ issued = {}
    /\ source = NoSource
    /\ dry_run = FALSE
    /\ pc = "resolve"

NextOrder == \E source_name \in OrderNames : Resolve(source_name)

SpecOrder == InitOrder /\ [][NextOrder]_vars

\* the entity rows of a store as a set
EntityRows(store) ==
    {store.canonical_entities[i] : i \in 1..Len(store.canonical_entities)}

\* C29: the id resolve returns for a name is the same whatever the order in
\* which the entities of the registry were indexed, also when two entities
\* share an indexed form
C29_ResolveOrderIndependent ==
    last.op = "resolve" =>
        \A rows \in Arrangements(EntityRows(db)) :
            resolve(EntityResolver(RegistryRows(rows), resolver.fuzzy_threshold),
                    last.source_name).cid = last.result.cid

\* C30: a non-dry run started right after a completed non-dry run deletes,
\* flags, merges and renames nothing, and leaves the store as it found it
C30_SecondRunDoesNothing ==
    (completed /\ ~dry_run) => (executed = {} /\ db = store0)

====
